---- MODULE Spec2Model ----
(***************************************************************************)
(* Model of io_scene_xsi3: the in-memory XSI document (blend2xsi3.py), its *)
(* text Writer, and the scene traversal Save (xsi_blender_exporter.py).    *)
(*                                                                         *)
(* Python values are modelled as follows.                                  *)
(*   - A Frame object is a record of the sequence heap; a Frame reference  *)
(*     is its index in heap, and 0 stands for None / the XSI container.    *)
(*   - A str that the code inspects character by character (a name) is a   *)
(*     sequence of one-character strings; Str joins it back.               *)
(*   - An optional value (None or an object) is a sequence of length 0     *)
(*     or 1; a vector that may be None is a sequence, empty for None.      *)
(*   - An exception is recorded in the variable raised ("" for none).      *)
(***************************************************************************)
EXTENDS Integers, Sequences, FiniteSets, TLC

VARIABLES
    DUPLICATE_FRAME_NOEXCEPT, \* blend2xsi3.DUPLICATE_FRAME_NOEXCEPT
    heap,                     \* every Frame object created so far
    xsi_frames,               \* XSI.frames: the root Frames
    frame_table,              \* XSI.frame_table: name -> Frame
    call,                     \* the last operation called, with its arguments
    raised,                   \* the exception the last operation raised, or ""
    file,                     \* the lines written to the output stream
    now,                      \* the host's wall clock, in seconds
    frame_start,              \* bpy.context.scene.frame_start
    frame_end,                \* bpy.context.scene.frame_end
    animkey,                  \* an AnimationKey object (none: the empty sequence)
    matrix,                   \* a mathutils Matrix, changed in place
    matrix_in,                \* the value of matrix when it was handed over
    applied,                  \* how many times matrix_to_xsi was applied to matrix
    bpy_objects,              \* bpy.data.objects: the objects of the host scene
    opt,                      \* Save.opt: the export options
    frame_current,            \* bpy.context.scene.frame_current: the scene clock
    original_keyframe_position, \* the local of Save.__init__
    pc,                       \* the position of Save.__init__
    objects,                  \* the local objects of Save.__init__: the chosen roots
    root,                     \* how many of objects the loop over them has taken
    stack,                    \* the calls of object_to_bz2frame in progress
    referenced_objects,       \* Save.referenced_objects
    enveloped_bz2frames,      \* Save.enveloped_bz2frames, in insertion order
    bone_name_to_bz2frame,    \* Save.bone_name_to_bz2frame, in insertion order
    visits,                   \* the calls of object_to_bz2frame: object and Frame made
    bz2mesh,                  \* the Mesh get_material_indices is called on
    returned                  \* what get_material_indices returned (none: the empty sequence)

docVars == <<DUPLICATE_FRAME_NOEXCEPT, heap, xsi_frames, frame_table>>
apiVars == <<call, raised>>
fileVars == <<file>>
hostVars == <<now, frame_start, frame_end>>
keyVars == <<animkey>>
mathVars == <<matrix, matrix_in, applied>>
materialVars == <<bz2mesh, returned>>
saveVars ==
    <<bpy_objects, opt, frame_current, original_keyframe_position, pc, objects, root,
      stack, referenced_objects, enveloped_bz2frames, bone_name_to_bz2frame,
      visits>>
vars == <<docVars, apiVars, fileVars, hostVars, keyVars, mathVars, materialVars,
          saveVars>>

(***************************************************************************)
(* Bounds of the model.                                                    *)
(***************************************************************************)
MaxFrames == 3

\* The names the client of the Document API passes to add_frame.
FrameNames == {<<"A">>, <<"B">>, <<"M", "y", " ", "O", "!">>}

\* A call: the operation, the object it is called on, and its arguments.
Call(op, self, name, arg) == [op |-> op, self |-> self, name |-> name, arg |-> arg]
NoCall == Call("", 0, <<>>, <<>>)

\* The values of the variables a specification does not use.
IdleFile == file = <<>>
IdleHost == now = 0 /\ frame_start = 0 /\ frame_end = 0
IdleDoc ==
    /\ DUPLICATE_FRAME_NOEXCEPT = FALSE
    /\ heap = <<>> /\ xsi_frames = <<>> /\ frame_table = [n \in {} |-> 0]
IdleKey == animkey = <<>>
IdleMath == matrix = <<>> /\ matrix_in = <<>> /\ applied = 0
IdleMaterial == bz2mesh = <<>> /\ returned = <<>>
IdleSave ==
    /\ bpy_objects = <<>> /\ opt = <<>> /\ frame_current = 0
    /\ original_keyframe_position = 0 /\ pc = "" /\ objects = <<>> /\ root = 0
    /\ stack = <<>> /\ referenced_objects = {}
    /\ enveloped_bz2frames = <<>> /\ bone_name_to_bz2frame = <<>>
    /\ visits = <<>>

(***************************************************************************)
(* blend2xsi3.py: Frame and _FrameContainer                                *)
(***************************************************************************)

\* Frame.__init__(name); transform is the attribute Save adds to a Frame, empty
\* until it is set.
Frame(name) ==
    [name |-> name, is_bone |-> FALSE,
     basepose_sca_xyz |-> <<>>, basepose_rot_xyz |-> <<>>, basepose_pos_xyz |-> <<>>,
     srt_sca_xyz |-> <<>>, srt_rot_xyz |-> <<>>, srt_pos_xyz |-> <<>>,
     pose |-> <<>>, transform |-> <<>>, mesh |-> <<>>, parent |-> 0, frames |-> <<>>,
     animation_keys |-> <<>>, envelopes |-> <<>>]

\* self.frames of a container: the XSI container is 0, a Frame is its index.
ContainerFrames(self) == IF self = 0 THEN xsi_frames ELSE heap[self].frames

\* The containers add_frame can be called on: the Document and its Frames.
Containers == 0 .. Len(heap)

\* A mutation of TableSet: an entry already present is kept.
TableSetKeepFirst(table, name, frame) ==
    [n \in (DOMAIN table) \cup {name} |->
        IF n \in DOMAIN table THEN table[n] ELSE frame]

\* The frame_table after "self.xsi.frame_table[name] = frame".
TableSet(table, name, frame) ==
    [n \in (DOMAIN table) \cup {name} |-> IF n = name THEN frame ELSE table[n]]

\* A mutation of add_frame_raises: names are checked per parent only.
add_frame_raises_per_parent(self, name) ==
    /\ \E i \in DOMAIN ContainerFrames(self) : heap[ContainerFrames(self)[i]].name = name
    /\ ~DUPLICATE_FRAME_NOEXCEPT

\* The guard of add_frame: the condition under which it raises DuplicateFrame.
\* self.xsi.frame_table is the one table of the Document, whatever self is.
add_frame_raises(self, name) ==
    name \in DOMAIN frame_table /\ ~DUPLICATE_FRAME_NOEXCEPT

\* A mutation of add_frame: the Frame is created and appended before the name
\* is checked.
add_frame_appends_first(self, name) ==
    LET frame == Len(heap) + 1
        new == [Frame(name) EXCEPT !.parent = self]
        grown == Append(heap, new)
    IN  /\ call' = Call("add_frame", self, name, <<>>)
        /\ heap' = IF self = 0 THEN grown
                   ELSE [grown EXCEPT ![self].frames = Append(@, frame)]
        /\ xsi_frames' = IF self = 0 THEN Append(xsi_frames, frame) ELSE xsi_frames
        /\ IF add_frame_raises(self, name)
           THEN raised' = "DuplicateFrame" /\ frame_table' = frame_table
           ELSE raised' = "" /\ frame_table' = TableSet(frame_table, name, frame)
        /\ UNCHANGED DUPLICATE_FRAME_NOEXCEPT

\* _FrameContainer.add_frame(self, name)
add_frame(self, name) ==
    /\ call' = Call("add_frame", self, name, <<>>)
    /\ IF add_frame_raises(self, name)
       THEN /\ raised' = "DuplicateFrame"
            /\ UNCHANGED docVars
       ELSE LET frame == Len(heap) + 1
                new == [Frame(name) EXCEPT !.parent = self]
                grown == Append(heap, new)
            IN  /\ raised' = ""
                /\ frame_table' = TableSet(frame_table, name, frame)
                /\ heap' = IF self = 0 THEN grown
                           ELSE [grown EXCEPT ![self].frames = Append(@, frame)]
                /\ xsi_frames' = IF self = 0 THEN Append(xsi_frames, frame)
                                 ELSE xsi_frames
                /\ UNCHANGED DUPLICATE_FRAME_NOEXCEPT

\* The body of get_all_frames, over a list of Frames: depth-first pre-order.
RECURSIVE AllFramesOf(_)
AllFramesOf(fs) ==
    IF fs = <<>> THEN <<>>
    ELSE <<Head(fs)>> \o AllFramesOf(heap[Head(fs)].frames) \o AllFramesOf(Tail(fs))

\* A mutation of get_all_frames: the direct children only.
get_all_frames_shallow(self) == ContainerFrames(self)

\* _FrameContainer.get_all_frames(self)
get_all_frames(self) == AllFramesOf(ContainerFrames(self))

\* The first Frame of fs named name, 0 (None) when there is none.
RECURSIVE FirstNamed(_, _)
FirstNamed(fs, name) ==
    IF fs = <<>> THEN 0
    ELSE IF heap[Head(fs)].name = name THEN Head(fs)
    ELSE FirstNamed(Tail(fs), name)

\* _FrameContainer.find_frame(self, name)
find_frame(self, name) == FirstNamed(get_all_frames(self), name)

\* The number of elements of seq that satisfy Test.
Count(seq, Test(_)) == Cardinality({i \in DOMAIN seq : Test(seq[i])})

(***************************************************************************)
(* The Document API under a client that adds frames.                       *)
(***************************************************************************)
EmptyTable == [n \in {} |-> 0]

DocInit ==
    /\ DUPLICATE_FRAME_NOEXCEPT \in BOOLEAN
    /\ heap = <<>>
    /\ xsi_frames = <<>>
    /\ frame_table = EmptyTable
    /\ call = NoCall
    /\ raised = ""
    /\ IdleFile /\ IdleHost /\ IdleKey /\ IdleMath /\ IdleMaterial /\ IdleSave

\* A client call of add_frame; the model stops creating Frames at MaxFrames.
AddFrame ==
    \E self \in Containers, name \in FrameNames :
        /\ Len(heap) < MaxFrames \/ add_frame_raises(self, name)
        /\ add_frame(self, name)
        /\ UNCHANGED <<fileVars, hostVars, keyVars, mathVars, materialVars, saveVars>>

DocNext == AddFrame

SpecDoc == DocInit /\ [][DocNext]_vars

(***************************************************************************)
(* Claims about the Document API (checked under SpecDoc).                  *)
(***************************************************************************)

\* C2: with DUPLICATE_FRAME_NOEXCEPT off, add_frame(name) on the Document or on
\* any Frame raises DuplicateFrame whenever name is in the Document's
\* frame_table, whichever container holds the Frame registered under it.
C2_DuplicateNameRaises ==
    [][\A self \in Containers, name \in FrameNames :
          (/\ call' = Call("add_frame", self, name, <<>>)
           /\ ~DUPLICATE_FRAME_NOEXCEPT
           /\ name \in DOMAIN frame_table)
          => raised' = "DuplicateFrame"]_vars

\* C2 witness: a call failed on a container other than the parent of the Frame
\* that holds the name.
C2_Witness ==
    /\ raised = "DuplicateFrame"
    /\ call.name \in DOMAIN frame_table
    /\ heap[frame_table[call.name]].parent # call.self
    /\ call.self # 0

\* Frame f is found under its name, and is the only Frame of that name.
FoundOnce(f) ==
    /\ find_frame(0, heap[f].name) = f
    /\ Count(get_all_frames(0), LAMBDA g : heap[g].name = heap[f].name) = 1

\* C3 as stated: after any successful add_frame calls, every added name is found
\* by find_frame and is yielded exactly once by get_all_frames.
C3_AsStated == \A f \in DOMAIN heap : FoundOnce(f)

\* C3 amended: the same, with DUPLICATE_FRAME_NOEXCEPT off.
C3_FindFrameUnique ==
    ~DUPLICATE_FRAME_NOEXCEPT => \A f \in DOMAIN heap : FoundOnce(f)

\* C3 witness: three frames were added, one of them below another Frame.
C3_Witness ==
    /\ ~DUPLICATE_FRAME_NOEXCEPT
    /\ Len(heap) >= 3
    /\ \E f \in DOMAIN heap : heap[f].parent # 0 /\ heap[heap[f].parent].parent # 0

\* A step that is add_frame(self, name) with name already registered and
\* DUPLICATE_FRAME_NOEXCEPT on.
PermittedDuplicate(self, name) ==
    /\ call' = Call("add_frame", self, name, <<>>)
    /\ DUPLICATE_FRAME_NOEXCEPT
    /\ name \in DOMAIN frame_table

\* C5 as stated: a permitted duplicate leaves the table entry at the Frame
\* registered first and appends the new Frame to the container's children.
C5_AsStated ==
    [][\A self \in Containers, name \in FrameNames :
          PermittedDuplicate(self, name)
          => /\ frame_table'[name] = frame_table[name]
             /\ ContainerFrames(self)' = Append(ContainerFrames(self), Len(heap'))]_vars

\* C5 amended: a permitted duplicate moves the table entry to the new Frame
\* (the last registered) and appends the new Frame to the container's children.
C5_TableKeepsLast ==
    [][\A self \in Containers, name \in FrameNames :
          PermittedDuplicate(self, name)
          => /\ raised' = ""
             /\ Len(heap') = Len(heap) + 1
             /\ frame_table'[name] = Len(heap')
             /\ frame_table[name] # Len(heap')
             /\ heap'[Len(heap')].name = name
             /\ ContainerFrames(self)' = Append(ContainerFrames(self), Len(heap'))]_vars

\* C5 witness: two Frames carry one name, and the table holds the later one.
C5_Witness ==
    /\ DUPLICATE_FRAME_NOEXCEPT
    /\ \E f, g \in DOMAIN heap :
          f < g /\ heap[f].name = heap[g].name /\ frame_table[heap[g].name] = g

\* C26: when add_frame fails with DuplicateFrame, the Document is unchanged:
\* the frame_table, the frames of the container it was called on, and the
\* sequence get_all_frames() yields (with the Frames themselves) are what they
\* were before the call.
C26_FailureChangesNothing ==
    [][\A self \in Containers :
          (call'.op = "add_frame" /\ call'.self = self /\ raised' = "DuplicateFrame")
          => /\ frame_table' = frame_table
             /\ ContainerFrames(self)' = ContainerFrames(self)
             /\ get_all_frames(0)' = get_all_frames(0)
             /\ heap' = heap]_vars

\* C26 witness: add_frame failed on a Frame that has a child, in a Document
\* with a Frame at the root besides it.
C26_Witness ==
    /\ raised = "DuplicateFrame" /\ call.op = "add_frame"
    /\ call.self # 0
    /\ heap[call.self].frames # <<>>
    /\ Len(xsi_frames) >= 2

(***************************************************************************)
(* blend2xsi3.py: Mesh, Material, Envelope                                 *)
(*                                                                         *)
(* A float is modelled as an integer count of millionths, which is what    *)
(* "%f" prints: 50.0 is 50000000 and prints as 50.000000.                  *)
(***************************************************************************)
DEFAULT_DIFFUSE == <<700000, 700000, 700000, 1000000>>
DEFAULT_SPECULAR == <<350000, 350000, 350000>>
DEFAULT_EMISSIVE == <<0, 0, 0>>
DEFAULT_AMBIENT == <<500000, 500000, 500000>>
DEFAULT_HARDNESS == 200000000
DEFAULT_SHADING_TYPE == 2

\* Material.__init__ with every argument but the texture left at its default.
\* A texture path is the sequence of the pieces that "base\" separates in it
\* (what str.split('base\\') returns); the empty sequence is None.
Material(texture) ==
    [diffuse |-> DEFAULT_DIFFUSE, hardness |-> DEFAULT_HARDNESS,
     specular |-> DEFAULT_SPECULAR, ambient |-> DEFAULT_AMBIENT,
     emissive |-> DEFAULT_EMISSIVE, shading_type |-> DEFAULT_SHADING_TYPE,
     texture |-> texture]

\* Mesh.__init__(name): name is a character sequence, empty for None.
Mesh(name) ==
    [name |-> name, vertices |-> <<>>, faces |-> <<>>,
     normal_vertices |-> <<>>, normal_faces |-> <<>>,
     uv_vertices |-> <<>>, uv_faces |-> <<>>,
     face_materials |-> <<>>,
     vertex_colors |-> <<>>, vertex_color_faces |-> <<>>]

\* Envelope.__init__(bone, vertices)
Envelope(bone, vertices) == [bone |-> bone, vertices |-> vertices]

\* A mutation of Material.__eq__: only the textures are compared.
Material__eq__texture_only(self, other) == self.texture = other.texture

\* Material.__eq__(self, other): the seven attributes are compared with ==.
Material__eq__(self, other) ==
    /\ self.texture = other.texture
    /\ self.diffuse = other.diffuse
    /\ self.hardness = other.hardness
    /\ self.specular = other.specular
    /\ self.ambient = other.ambient
    /\ self.emissive = other.emissive
    /\ self.shading_type = other.shading_type

\* The index of the first element of seq equal to x: list.index(x), which
\* compares with Material.__eq__.
RECURSIVE IndexOf(_, _)
IndexOf(seq, x) == IF Material__eq__(Head(seq), x) THEN 0 ELSE 1 + IndexOf(Tail(seq), x)

\* The list of the distinct materials of face_materials, in order of first use.
RECURSIVE DistinctMaterials(_, _)
DistinctMaterials(face_materials, materials) ==
    IF face_materials = <<>> THEN materials
    ELSE LET material == Head(face_materials)
         IN  DistinctMaterials(Tail(face_materials),
                IF \E i \in DOMAIN materials : Material__eq__(materials[i], material)
                THEN materials ELSE Append(materials, material))

\* Mesh.get_material_indices(self): (indices, materials)
get_material_indices(mesh) ==
    LET materials == DistinctMaterials(mesh.face_materials, <<>>)
    IN  [indices |-> [i \in DOMAIN mesh.face_materials |->
                         IndexOf(materials, mesh.face_materials[i])],
         materials |-> materials]

\* _FrameContainer.get_skinned_frames(self)
get_skinned_frames(self) ==
    SelectSeq(get_all_frames(self), LAMBDA f : heap[f].envelopes # <<>>)

\* _FrameContainer.get_bone_frames(self)
get_bone_frames(self) ==
    SelectSeq(get_all_frames(self), LAMBDA f : heap[f].is_bone)

\* sum(len(f.envelopes) for f in fs)
RECURSIVE SumEnvelopes(_)
SumEnvelopes(fs) ==
    IF fs = <<>> THEN 0 ELSE Len(heap[Head(fs)].envelopes) + SumEnvelopes(Tail(fs))

\* sum(len(e.vertices) for e in envelopes)
RECURSIVE SumWeights(_)
SumWeights(envelopes) ==
    IF envelopes = <<>> THEN 0 ELSE Len(Head(envelopes).vertices) + SumWeights(Tail(envelopes))

\* The total number of (vertex, weight) entries of the envelopes of fs.
RECURSIVE SumEnvelopeWeights(_)
SumEnvelopeWeights(fs) ==
    IF fs = <<>> THEN 0
    ELSE SumWeights(heap[Head(fs)].envelopes) + SumEnvelopeWeights(Tail(fs))

\* A mutation of get_envelope_count: the vertex-weight entries are counted.
get_envelope_count_weights(self) == SumEnvelopeWeights(get_skinned_frames(self))

\* _FrameContainer.get_envelope_count(self)
get_envelope_count(self) == SumEnvelopes(get_skinned_frames(self))

(***************************************************************************)
(* blend2xsi3.py: Writer                                                   *)
(*                                                                         *)
(* The output is the sequence of the lines written: one element for each   *)
(* call of Writer.write, holding the tabs and the data (the newline that   *)
(* write adds is left out).  An operator that writes returns its lines; an *)
(* exception is a marker line (Raise), and what follows it in the sequence *)
(* is never written (Written).                                             *)
(***************************************************************************)

\* "".join(chars)
RECURSIVE Str(_)
Str(chars) == IF chars = <<>> THEN "" ELSE Head(chars) \o Str(Tail(chars))

\* "\t" * t
RECURSIVE Tabs(_)
Tabs(t) == IF t = 0 THEN "" ELSE "\t" \o Tabs(t - 1)

\* "%d" % n, "%i" % n
Fmt_d(n) == IF n < 0 THEN "-" \o ToString(0 - n) ELSE ToString(n)

\* The six decimals of "%f": n is below 1000000.
Decimals(n) ==
    IF n < 10 THEN "00000" \o ToString(n)
    ELSE IF n < 100 THEN "0000" \o ToString(n)
    ELSE IF n < 1000 THEN "000" \o ToString(n)
    ELSE IF n < 10000 THEN "00" \o ToString(n)
    ELSE IF n < 100000 THEN "0" \o ToString(n)
    ELSE ToString(n)

\* "%f" % x, for x in millionths
Fmt_f(x) ==
    LET a == IF x < 0 THEN 0 - x ELSE x
    IN  (IF x < 0 THEN "-" ELSE "") \o ToString(a \div 1000000) \o "."
            \o Decimals(a % 1000000)

\* The marker of an exception raised while writing.
Raise(exception) == "<raise " \o exception \o ">"
Exceptions == {"TypeError", "IndexError"}
IsRaise(line) == \E e \in Exceptions : line = Raise(e)

\* The place of the first exception in lines, Len(lines) + 1 when there is none.
FirstRaise(lines) ==
    LET places == {i \in DOMAIN lines : IsRaise(lines[i])}
    IN  IF places = {} THEN Len(lines) + 1
        ELSE CHOOSE i \in places : \A j \in places : i <= j

\* The lines that reach the stream: those before the first exception.
Written(lines) == SubSeq(lines, 1, FirstRaise(lines) - 1)

\* The exception that ends the writing of lines, "" when there is none.
RaisedBy(lines) ==
    IF FirstRaise(lines) > Len(lines) THEN ""
    ELSE CHOOSE e \in Exceptions : lines[FirstRaise(lines)] = Raise(e)

\* The characters get_safe_name keeps.
allowed ==
    {"Q", "W", "E", "R", "T", "Y", "U", "I", "O", "P", "A", "S", "D", "F", "G", "H",
     "J", "K", "L", "Z", "X", "C", "V", "B", "N", "M", "q", "w", "e", "r", "t", "y",
     "u", "i", "o", "p", "a", "s", "d", "f", "g", "h", "j", "k", "l", "z", "x", "c",
     "v", "b", "n", "m", "1", "2", "3", "4", "5", "6", "7", "8", "9", "0", "_", "-"}

\* A mutation of get_safe_name: the name is passed through as it is.
get_safe_name_raw(name) == name

\* Writer.get_safe_name(self, name, sub="_"), as a character sequence
get_safe_name(name) ==
    LET named == IF name = <<>> THEN <<"u", "n", "n", "a", "m", "e", "d">> ELSE name
    IN  [i \in DOMAIN named |-> IF named[i] \in allowed THEN named[i] ELSE "_"]

\* get_safe_name as the str that is formatted into a line
SafeName(name) == Str(get_safe_name(name))

\* Writer.write(self, t, data): the line written
write(t, data) == <<Tabs(t) \o data>>

\* One conversion of a format string applied to a value.
Convert(conversion, value) == IF conversion = "f" THEN Fmt_f(value) ELSE Fmt_d(value)

\* The conversions of format_string applied to vector and joined by commas.
RECURSIVE Joined(_, _)
Joined(conversions, vector) ==
    IF Len(conversions) = 1 THEN Convert(conversions[1], vector[1])
    ELSE Convert(conversions[1], vector[1]) \o "," \o Joined(Tail(conversions), Tail(vector))

\* self.write(t, format_string % tuple(vector) + tail): the format string is the
\* sequence of its conversions ("%d,%f" is <<"d", "f">>); "%" raises TypeError
\* when the vector has more or fewer items than the format has conversions.
write_formatted(t, format_string, vector, tail) ==
    IF Len(vector) # Len(format_string) THEN <<Raise("TypeError")>>
    ELSE write(t, Joined(format_string, vector) \o tail)

\* The loop of write_vector_list over vectors[0:-1], then the last vector.
RECURSIVE write_vectors(_, _, _)
write_vectors(t, format_string, vectors) ==
    IF Len(vectors) = 1 THEN write_formatted(t, format_string, vectors[1], ",\n")
    ELSE write_formatted(t, format_string, vectors[1], ",")
            \o write_vectors(t, format_string, Tail(vectors))

\* Writer.write_vector_list(self, t, format_string, vectors, type_string,
\* type_string2, newline_string2, total); "" stands for a type string of None.
write_vector_list(t, format_string, vectors, type_string, type_string2, newline_string2, total) ==
    (IF total THEN write(t, Fmt_d(Len(vectors)) \o ",") ELSE <<>>)
    \o (IF type_string # "" THEN write(t, "\"" \o type_string \o "\"" \o ",") ELSE <<>>)
    \o (IF type_string2 # "" /\ newline_string2
        THEN write(t, "\"" \o type_string2 \o "\"" \o ",\n")
        ELSE IF type_string2 # "" THEN write(t, "\"" \o type_string2 \o "\"" \o ",")
        ELSE <<>>)
    \o (IF vectors = <<>> THEN <<>> ELSE write_vectors(t, format_string, vectors))

\* A mutation of write_transform: the line that closes the block is missing.
write_transform_unclosed(t, sca, rot, pos, block_name) ==
    write(t, block_name \o " {")
    \o write(t + 1, Fmt_f(sca[1]) \o ",") \o write(t + 1, Fmt_f(sca[2]) \o ",")
    \o write(t + 1, Fmt_f(sca[3]) \o ",")
    \o write(t + 1, Fmt_f(rot[1]) \o ",") \o write(t + 1, Fmt_f(rot[2]) \o ",")
    \o write(t + 1, Fmt_f(rot[3]) \o ",")
    \o write(t + 1, Fmt_f(pos[1]) \o ",") \o write(t + 1, Fmt_f(pos[2]) \o ",")
    \o write(t + 1, Fmt_f(pos[3]) \o ",")

\* Writer.write_transform(self, t, sca, rot, pos, block_name)
write_transform(t, sca, rot, pos, block_name) ==
    write(t, block_name \o " {")
    \o write(t + 1, Fmt_f(sca[1]) \o ",") \o write(t + 1, Fmt_f(sca[2]) \o ",")
    \o write(t + 1, Fmt_f(sca[3]) \o ",")
    \o write(t + 1, Fmt_f(rot[1]) \o ",") \o write(t + 1, Fmt_f(rot[2]) \o ",")
    \o write(t + 1, Fmt_f(rot[3]) \o ",")
    \o write(t + 1, Fmt_f(pos[1]) \o ",") \o write(t + 1, Fmt_f(pos[2]) \o ",")
    \o write(t + 1, Fmt_f(pos[3]) \o ",")
    \o write(t, "}\n")

\* pattern in chars, for character sequences
Contains(chars, pattern) ==
    \E i \in 0 .. Len(chars) - Len(pattern) :
        \A j \in 1 .. Len(pattern) : chars[i + j] = pattern[j]

\* The index lines of write_mesh: the three branches on normals and UVs.
write_faces(t, mesh) ==
    LET iii == <<"i", "i", "i">>
    IN  IF mesh.normal_vertices # <<>> /\ mesh.uv_vertices = <<>>
        THEN write_vector_list(t, iii, mesh.faces, "NORMAL", "default_material", TRUE, TRUE)
             \o write_vector_list(t, iii, mesh.normal_faces, "", "", FALSE, FALSE)
        ELSE IF mesh.uv_vertices # <<>> /\ mesh.normal_vertices = <<>>
        THEN write_vector_list(t, iii, mesh.faces, "TEX_COORD_UV", "default_material", TRUE, TRUE)
             \o write_vector_list(t, iii, mesh.uv_faces, "", "", FALSE, FALSE)
        ELSE IF mesh.normal_vertices # <<>> /\ mesh.uv_vertices # <<>>
        THEN write_vector_list(t, iii, mesh.faces, "NORMAL|TEX_COORD_UV", "default_material",
                               TRUE, TRUE)
             \o write_vector_list(t, iii, mesh.normal_faces, "", "", FALSE, FALSE)
             \o write_vector_list(t, iii, mesh.uv_faces, "", "", FALSE, FALSE)
        ELSE <<>>

\* Writer.write_mesh(self, t, mesh, name)
write_mesh(t, mesh, name) ==
    LET safe == SafeName(name)
    IN
    write(t, "SI_Mesh MSH-" \o safe \o " {")
    \o (IF mesh.vertices # <<>>
        THEN write(t + 1, "SI_Shape SHP-" \o safe \o "-ORG {")
             \o (IF Contains(get_safe_name(name), <<"b", "o", "l", "t", "_">>)
                 THEN write(t + 2, "2,") ELSE write(t + 2, "3,"))
             \o write(t + 2, "\"ORDERED\",\n")
             \o write_vector_list(t + 2, <<"f", "f", "f">>, mesh.vertices, "POSITION", "",
                                  FALSE, FALSE)
             \o (IF mesh.normal_vertices # <<>>
                 THEN write_vector_list(t + 2, <<"f", "f", "f">>, mesh.normal_vertices,
                                        "NORMAL", "", FALSE, FALSE)
                 ELSE <<>>)
             \o (IF mesh.uv_vertices # <<>>
                 THEN write_vector_list(t + 2, <<"f", "f">>, mesh.uv_vertices,
                                        "TEX_COORD_UV", "", FALSE, FALSE)
                 ELSE <<>>)
             \o write(t + 1, "}\n")
             \o write(t + 1, "SI_TriangleList " \o safe \o " {")
             \o (IF mesh.faces # <<>> THEN write_faces(t + 2, mesh) ELSE <<>>)
             \o write(t + 1, "}\n")
        ELSE <<>>)
    \o write(t, "}\n")

\* The two blocks write_si_model writes for one material with a texture.
\* split('base\\')[1] raises IndexError when the path holds no "base\".
write_global_material(t, name, material) ==
    IF material.texture = <<>> THEN <<>>
    ELSE write(t, "SI_GlobalMaterial {")
         \o write(t + 1, "\"default_material\",")
         \o write(t + 1, "\"NODE\",")
         \o write(t, "}\n")
         \o write(t, "XSI_CustomPSet " \o SafeName(name) \o " {")
         \o write(t + 1, "\"NODE\",")
         \o write(t + 1, "1,")
         \o (IF Len(material.texture) < 2 THEN <<Raise("IndexError")>>
             ELSE write(t + 1, "\"Shader\",\"Text\",\"" \o material.texture[2] \o "\",")
                  \o write(t, "}\n"))

\* The loop of write_si_model over the materials of a mesh.
RECURSIVE write_global_materials(_, _, _)
write_global_materials(t, name, materials) ==
    IF materials = <<>> THEN <<>>
    ELSE write_global_material(t, name, Head(materials))
         \o write_global_materials(t, name, Tail(materials))

\* A mutation of write_frame_mesh: the mesh blocks are named after the frame.
write_frame_mesh_frame_name(t, frame) ==
    IF frame.mesh = <<>> THEN <<>>
    ELSE LET mesh == frame.mesh[1]
         IN  (IF mesh.face_materials # <<>> /\ mesh.faces # <<>>
              THEN write_global_materials(t, frame.name, get_material_indices(mesh).materials)
              ELSE <<>>)
             \o write_mesh(t, mesh, frame.name)

\* The part of write_si_model that writes the mesh of a frame.
write_frame_mesh(t, frame) ==
    IF frame.mesh = <<>> THEN <<>>
    ELSE LET mesh == frame.mesh[1]
         IN  (IF mesh.face_materials # <<>> /\ mesh.faces # <<>>
              THEN write_global_materials(t, frame.name, get_material_indices(mesh).materials)
              ELSE <<>>)
             \o write_mesh(t, mesh, IF mesh.name # <<>> THEN mesh.name ELSE frame.name)

\* Writer.write_si_model(self, t, frame), and its loop over the children.
RECURSIVE write_si_model(_, _), write_si_models(_, _)
write_si_model(t, f) ==
    LET frame == heap[f]
    IN  write(t, "SI_Model MDL-" \o SafeName(frame.name) \o " {")
        \o (IF frame.basepose_sca_xyz # <<>> /\ frame.basepose_rot_xyz # <<>>
               /\ frame.basepose_pos_xyz # <<>>
            THEN write_transform(t + 1, frame.basepose_sca_xyz, frame.basepose_rot_xyz,
                                 frame.basepose_pos_xyz,
                                 "SI_Transform BASEPOSE-" \o SafeName(frame.name))
            ELSE <<>>)
        \o (IF frame.srt_sca_xyz # <<>> /\ frame.srt_rot_xyz # <<>> /\ frame.srt_pos_xyz # <<>>
            THEN write_transform(t + 1, frame.srt_sca_xyz, frame.srt_rot_xyz,
                                 frame.srt_pos_xyz,
                                 "SI_Transform SRT-" \o SafeName(frame.name))
            ELSE <<>>)
        \o write(t + 1, "SI_Visibility {")
        \o write(t + 2, "1,")
        \o write(t + 1, "}\n")
        \o (IF frame.is_bone
            THEN write(t + 1, "SI_Null " \o SafeName(frame.name) \o " {")
                 \o write(t + 1, "}\n")
            ELSE <<>>)
        \o write_frame_mesh(t + 1, frame)
        \o write_si_models(t + 1, frame.frames)
        \o write(t, "}\n")
write_si_models(t, fs) ==
    IF fs = <<>> THEN <<>>
    ELSE write_si_model(t, Head(fs)) \o write_si_models(t, Tail(fs))

\* write_envelope with the two references in the other order.
write_envelope_bone_first(t, f, envelope) ==
    write(t, "SI_Envelope " \o SafeName(heap[f].name) \o " {")
    \o write(t + 1, "\"MDL-" \o SafeName(heap[envelope.bone].name) \o "\",")
    \o write(t + 1, "\"MDL-" \o SafeName(heap[f].name) \o "\",")
    \o write_vector_list(t + 1, <<"d", "f">>, envelope.vertices, "", "", FALSE, FALSE)
    \o write(t, "}")

\* Writer.write_envelope(self, t, frame, envelope)
write_envelope(t, f, envelope) ==
    write(t, "SI_Envelope " \o SafeName(heap[f].name) \o " {")
    \o write(t + 1, "\"MDL-" \o SafeName(heap[f].name) \o "\",")
    \o write(t + 1, "\"MDL-" \o SafeName(heap[envelope.bone].name) \o "\",")
    \o write_vector_list(t + 1, <<"d", "f">>, envelope.vertices, "", "", FALSE, FALSE)
    \o write(t, "}")

\* The loops of write_xsi over the skinned frames and their envelopes.
RECURSIVE write_envelopes(_, _, _)
write_envelopes(t, f, envelopes) ==
    IF envelopes = <<>> THEN <<>>
    ELSE write_envelope(t, f, Head(envelopes)) \o write_envelopes(t, f, Tail(envelopes))
RECURSIVE write_skinned_frames(_, _)
write_skinned_frames(t, fs) ==
    IF fs = <<>> THEN <<>>
    ELSE write_envelopes(t, Head(fs), heap[Head(fs)].envelopes)
         \o write_skinned_frames(t, Tail(fs))

\* n consecutive calls self.write(t, data)
RECURSIVE Repeat(_, _, _)
Repeat(n, t, data) == IF n = 0 THEN <<>> ELSE write(t, data) \o Repeat(n - 1, t, data)

\* What the host reports when the header is written.
blend_filename == "scene"
blender_version == "Blender Version 4.2.0"
frames_per_second == 24000000

\* A mutation of strftime: the same text at every second.
strftime_frozen(seconds) == "Mon Nov 02 19:24:10 2026"

\* datetime.now().strftime("%a %b %d %H:%M:%S %Y"): one text per second.
strftime(seconds) == "Mon Nov 02 19:24:" \o ToString(10 + seconds) \o " 2026"

\* The header blocks of write_xsi that depend on the host: file info and scene.
write_file_info ==
    write(0, "xsi 0300txt 0032\n")
    \o write(0, "SI_FileInfo {")
    \o write(1, "\"" \o blend_filename \o "\",")
    \o write(1, "\"Blender User\",")
    \o write(1, "\"" \o strftime(now) \o "\",")
    \o write(1, "\"" \o blender_version \o "\",")
    \o write(0, "}\n")
    \o write(0, "SI_Scene Blender {")
    \o write(1, "\"FRAMES\",")
    \o write(1, Fmt_f(frame_start * 1000000) \o ",")
    \o write(1, Fmt_f(frame_end * 1000000) \o ",")
    \o write(1, Fmt_f(frames_per_second) \o ",")
    \o write(0, "}\n")

\* The header blocks of write_xsi that are the same in every file.
write_library ==
    write(0, "SI_CoordinateSystem coord {")
    \o write(1, "1,") \o write(1, "0,") \o write(1, "1,")
    \o write(1, "0,") \o write(1, "2,") \o write(1, "5,")
    \o write(0, "}\n")
    \o write(0, "SI_Angle {")
    \o write(1, "0,")
    \o write(0, "}\n")
    \o write(0, "SI_Ambience {")
    \o Repeat(3, 1, "0.000000,")
    \o write(0, "}")
    \o write(0, "SI_MaterialLibrary MATLIB-" \o blend_filename \o " {")
    \o write(1, "1,")
    \o write(1, "SI_Material default_material {")
    \o Repeat(11, 2, "0.000000,")
    \o write(2, "0,")
    \o Repeat(3, 2, "0.000000,")
    \o write(2, "SI_Texture2D {")
    \o write(3, "\"default_texture\",")
    \o Repeat(12, 3, "0,")
    \o Repeat(20, 3, "0.000000,")
    \o write(3, "0,")
    \o Repeat(7, 3, "0.000000,")
    \o write(2, "}\n")
    \o write(1, "}\n")
    \o write(0, "}")

\* A mutation of write_roots: the last root is written first.
RECURSIVE write_roots_backwards(_)
write_roots_backwards(fs) ==
    IF fs = <<>> THEN <<>>
    ELSE write_roots_backwards(Tail(fs)) \o write(0, "") \o write_si_model(0, Head(fs))

\* The loop of write_xsi over the root frames.
RECURSIVE write_roots(_)
write_roots(fs) ==
    IF fs = <<>> THEN <<>>
    ELSE write(0, "") \o write_si_model(0, Head(fs)) \o write_roots(Tail(fs))

\* The envelope list of write_xsi.
write_envelope_list ==
    LET skinned_frames == get_skinned_frames(0)
    IN  IF skinned_frames # <<>>
        THEN write(0, "\nSI_EnvelopeList Blender {")
             \o write(1, Fmt_d(get_envelope_count(0)) \o ",")
             \o write_skinned_frames(1, skinned_frames)
             \o write(0, "}")
        ELSE <<>>

\* A mutation of write_xsi: the envelope list is written before the models.
write_xsi_envelopes_first ==
    write_file_info \o write_library \o write_envelope_list \o write_roots(xsi_frames)

\* Writer.write_xsi(self): every line it sets out to write, in order.
write_xsi ==
    write_file_info \o write_library \o write_roots(xsi_frames) \o write_envelope_list

(***************************************************************************)
(* The Writer applied to a Document.  The Documents are the trees of up to *)
(* MaxWFrames Frames whose Frames are each of one of FrameKinds.           *)
(***************************************************************************)
MaxWFrames == 3

\* Three transform vectors: scale, rotation, translation.
SomeSca == <<1000000, 1000000, 1000000>>
SomeRot == <<0, 90000000, 0>>
SomePos == <<1000000, -2500000, 50000>>

\* A triangle with normals and UVs, and one material with a texture below base\.
TriMesh ==
    [Mesh(<<>>) EXCEPT
        !.vertices = <<<<0, 0, 0>>, <<1000000, 0, 0>>, <<0, 1000000, 0>>>>,
        !.faces = <<<<0, 1, 2>>>>,
        !.normal_vertices = <<<<0, 0, 1000000>>, <<0, 0, 1000000>>, <<0, 0, 1000000>>>>,
        !.normal_faces = <<<<0, 1, 2>>>>,
        !.uv_vertices = <<<<0, 0>>, <<1000000, 0>>, <<0, 1000000>>>>,
        !.uv_faces = <<<<0, 1, 2>>>>,
        !.face_materials = <<Material(<<"C:\\game\\", "models\\luke\\torso.tga">>)>>]

\* A box: 8 vertices, 6 quads, one material.
BoxMesh ==
    [Mesh(<<"B", "o", "x">>) EXCEPT
        !.vertices = <<<<-1000000, -1000000, -1000000>>, <<1000000, -1000000, -1000000>>,
                       <<1000000, 1000000, -1000000>>, <<-1000000, 1000000, -1000000>>,
                       <<-1000000, -1000000, 1000000>>, <<1000000, -1000000, 1000000>>,
                       <<1000000, 1000000, 1000000>>, <<-1000000, 1000000, 1000000>>>>,
        !.faces = <<<<0, 1, 2, 3>>, <<4, 5, 6, 7>>, <<0, 1, 5, 4>>,
                    <<1, 2, 6, 5>>, <<2, 3, 7, 6>>, <<3, 0, 4, 7>>>>,
        !.face_materials = [i \in 1 .. 6 |-> Material(<<>>)]]

\* The kinds of Frame of the Documents: the name, the fields set on the Frame,
\* and, for a skinned Frame, the vertex weights by bone name.
Kind(name, is_bone, mesh, basepose, srt, weights) ==
    [name |-> name, is_bone |-> is_bone, mesh |-> mesh, basepose |-> basepose,
     srt |-> srt, weights |-> weights]

FrameKinds ==
    { Kind(<<"R", "o", "o", "t">>, FALSE, <<>>, FALSE, FALSE, <<>>),
      Kind(<<"B", "o", "x">>, FALSE, <<BoxMesh>>, FALSE, TRUE, <<>>),
      Kind(<<"M", "y", " ", "O", "b", "j", "e", "c", "t", "!">>, FALSE, <<TriMesh>>,
           TRUE, TRUE,
           << [bone |-> <<"A">>, vertices |-> <<<<0, 50000000>>, <<1, 100000000>>>>],
              [bone |-> <<>>, vertices |-> <<<<2, 75000000>>>>] >>),
      Kind(<<"A">>, TRUE, <<>>, TRUE, TRUE, <<>>),
      Kind(<<>>, TRUE,
           <<[TriMesh EXCEPT !.name = <<"C", "u", "b", "e", ".", "0", "0", "1">>,
                             !.uv_vertices = <<>>, !.uv_faces = <<>>]>>,
           TRUE, FALSE, <<>>) }

\* The elements of a set of numbers, in ascending order.
RECURSIVE Ascending(_)
Ascending(S) ==
    IF S = {} THEN <<>>
    ELSE LET least == CHOOSE x \in S : \A y \in S : x <= y
         IN  <<least>> \o Ascending(S \ {least})

\* Frame j and its ancestors, in a tree given by the parent of each Frame.
RECURSIVE AncestorsAndSelf(_, _)
AncestorsAndSelf(par, j) ==
    {j} \cup (IF par[j] = 0 THEN {} ELSE AncestorsAndSelf(par, par[j]))

\* The trees of n Frames numbered in depth-first pre-order.
Shapes(n) ==
    {par \in [1 .. n -> 0 .. n] :
        \A i \in 1 .. n :
            /\ par[i] < i
            /\ i > 1 => par[i] \in {0} \cup AncestorsAndSelf(par, i - 1)}

\* The envelopes of a skinned Frame: one for each bone Frame it has weights for.
EnvelopesOf(kind, weights) ==
    LET bones == Ascending({j \in DOMAIN kind : kind[j].is_bone})
        table == [j \in DOMAIN kind |->
                     SelectSeq(weights, LAMBDA w : w.bone = kind[j].name)]
        withWeights == SelectSeq(bones, LAMBDA j : table[j] # <<>>)
    IN  [i \in DOMAIN withWeights |->
            Envelope(withWeights[i], table[withWeights[i]][1].vertices)]

\* The Frame objects of the Document of shape par whose Frames are of kind.
BuildHeap(par, kind) ==
    [i \in DOMAIN par |->
        [Frame(kind[i].name) EXCEPT
            !.is_bone = kind[i].is_bone,
            !.mesh = kind[i].mesh,
            !.basepose_sca_xyz = IF kind[i].basepose THEN SomeSca ELSE <<>>,
            !.basepose_rot_xyz = IF kind[i].basepose THEN SomeRot ELSE <<>>,
            !.basepose_pos_xyz = IF kind[i].basepose THEN SomePos ELSE <<>>,
            !.srt_sca_xyz = IF kind[i].srt THEN SomeSca ELSE <<>>,
            !.srt_rot_xyz = IF kind[i].srt THEN SomeRot ELSE <<>>,
            !.srt_pos_xyz = IF kind[i].srt THEN SomePos ELSE <<>>,
            !.parent = par[i],
            !.frames = Ascending({j \in DOMAIN par : par[j] = i}),
            !.envelopes = EnvelopesOf(kind, kind[i].weights)]]

WriteInit ==
    /\ \E n \in 0 .. MaxWFrames :
         \E par \in Shapes(n), kind \in [1 .. n -> FrameKinds] :
            /\ heap = BuildHeap(par, kind)
            /\ xsi_frames = Ascending({j \in 1 .. n : par[j] = 0})
    /\ frame_table = EmptyTable
    /\ DUPLICATE_FRAME_NOEXCEPT = FALSE
    /\ file = <<>>
    /\ now = 0
    /\ frame_start = 1
    /\ frame_end = 3
    /\ call = NoCall
    /\ raised = ""
    /\ IdleKey /\ IdleMath /\ IdleMaterial /\ IdleSave

\* XSI.write(filepath): the Writer writes the Document to the stream; what was
\* written before an exception stays in the file.
Write ==
    /\ LET lines == write_xsi
       IN  file' = Written(lines) /\ raised' = RaisedBy(lines)
    /\ call' = Call("write_xsi", 0, <<>>, <<>>)
    /\ UNCHANGED <<docVars, hostVars, keyVars, mathVars, materialVars, saveVars>>

WriteNext == Write

SpecWrite == WriteInit /\ [][WriteNext]_vars

(***************************************************************************)
(* Claims about the Document queries and the Writer (under SpecWrite).     *)
(***************************************************************************)

\* The Frames of the Document, and the envelopes they hold: (Frame, index).
DocFrames == {get_all_frames(0)[i] : i \in DOMAIN get_all_frames(0)}
DocEnvelopes == {<<f, i>> \in DocFrames \X (1 .. 10) : i \in DOMAIN heap[f].envelopes}

\* The number of (vertex index, weight) entries of the envelopes of the Document.
RECURSIVE WeightEntries(_)
WeightEntries(pairs) ==
    IF pairs = {} THEN 0
    ELSE LET p == CHOOSE q \in pairs : TRUE
         IN  Len(heap[p[1]].envelopes[p[2]].vertices) + WeightEntries(pairs \ {p})

\* C6 as stated: get_envelope_count() is the total number of (vertex index,
\* weight) entries over the envelopes of all frames.
C6_AsStated == get_envelope_count(0) = WeightEntries(DocEnvelopes)

\* C6 amended: get_envelope_count() is the number of envelopes, summed over the
\* frames of the Document; it is the count line the Writer puts under the
\* SI_EnvelopeList header.
C6_CountsEnvelopes ==
    /\ get_envelope_count(0) = Cardinality(DocEnvelopes)
    /\ \A i \in DOMAIN file :
          file[i] = "\nSI_EnvelopeList Blender {"
          => file[i + 1] = "\t" \o ToString(Cardinality(DocEnvelopes)) \o ","

\* C6 witness: a written Document whose envelopes hold more entries than there
\* are envelopes.
C6_Witness ==
    /\ \E i \in DOMAIN file : file[i] = "\nSI_EnvelopeList Blender {"
    /\ Cardinality(DocEnvelopes) >= 2
    /\ WeightEntries(DocEnvelopes) > Cardinality(DocEnvelopes)

\* The characters the specification allows in a name: A-Z, a-z, 0-9, _ and -.
SpecAllowed ==
    {"A", "B", "C", "D", "E", "F", "G", "H", "I", "J", "K", "L", "M",
     "N", "O", "P", "Q", "R", "S", "T", "U", "V", "W", "X", "Y", "Z",
     "a", "b", "c", "d", "e", "f", "g", "h", "i", "j", "k", "l", "m",
     "n", "o", "p", "q", "r", "s", "t", "u", "v", "w", "x", "y", "z",
     "0", "1", "2", "3", "4", "5", "6", "7", "8", "9", "_", "-"}

\* name is sanitized to safe as the specification says.
IsSanitized(name, safe) ==
    IF name = <<>> THEN safe = <<"u", "n", "n", "a", "m", "e", "d">>
    ELSE /\ Len(safe) = Len(name)
         /\ \A i \in DOMAIN name :
               safe[i] = IF name[i] \in SpecAllowed THEN name[i] ELSE "_"

\* Names of up to two characters: letters, digits, the two kept signs, and
\* characters that are not kept.
NameChars == {"a", "Q", "0", "9", "_", "-", " ", "!", ".", "/", "\\", "#"}
ShortNames == {<<>>} \cup {<<c>> : c \in NameChars} \cup (NameChars \X NameChars)

\* The sanitized form of name, as a str.
Sanitized(name) ==
    IF name = <<>> THEN "unnamed"
    ELSE Str([i \in DOMAIN name |-> IF name[i] \in SpecAllowed THEN name[i] ELSE "_"])

\* The number of ancestors of Frame f: the indentation of its SI_Model block.
RECURSIVE Depth(_)
Depth(f) == IF heap[f].parent = 0 THEN 0 ELSE 1 + Depth(heap[f].parent)

\* The (skinned frame, envelope) pairs in traversal order.
RECURSIVE PairsOf(_)
PairsOf(fs) ==
    IF fs = <<>> THEN <<>>
    ELSE [i \in DOMAIN heap[Head(fs)].envelopes |-> <<Head(fs), i>>] \o PairsOf(Tail(fs))
EnvelopePairs == PairsOf(get_all_frames(0))

\* The places of file, from place p on, where an SI_Envelope block opens.
EnvelopeOpenings(p) ==
    SelectSeq([i \in 1 .. Len(file) |-> i],
              LAMBDA i : i > p /\ \E f \in DocFrames :
                            file[i] = "\tSI_Envelope " \o Sanitized(heap[f].name) \o " {")

\* C7: in the output for a Document with a skinned frame, the count line of the
\* SI_EnvelopeList block is the number of SI_Envelope sub-blocks written, which
\* is one per (skinned frame, envelope) pair in traversal order, and each
\* sub-block refers to MDL-<frame name> and then to MDL-<bone name>.
C7_EnvelopeList ==
    (call.op = "write_xsi" /\ raised = "" /\ get_skinned_frames(0) # <<>>)
    => \E p \in DOMAIN file :
          /\ file[p] = "\nSI_EnvelopeList Blender {"
          /\ \A q \in DOMAIN file : file[q] = file[p] => q = p
          /\ LET opens == EnvelopeOpenings(p)
             IN  /\ file[p + 1] = "\t" \o ToString(Len(opens)) \o ","
                 /\ Len(opens) = Len(EnvelopePairs)
                 /\ \A k \in DOMAIN opens :
                       LET f == EnvelopePairs[k][1]
                           envelope == heap[f].envelopes[EnvelopePairs[k][2]]
                       IN  /\ file[opens[k]] =
                                "\tSI_Envelope " \o Sanitized(heap[f].name) \o " {"
                           /\ file[opens[k] + 1] =
                                "\t\t\"MDL-" \o Sanitized(heap[f].name) \o "\","
                           /\ file[opens[k] + 2] =
                                "\t\t\"MDL-" \o Sanitized(heap[envelope.bone].name) \o "\","
                           /\ file[opens[k] + 3 + Len(envelope.vertices)] = "\t}"
                 /\ file[Len(file)] = "}"

\* C7 witness: the example of the specification was written: one frame with
\* two envelopes, count 2, the first for bone A with two weights.
C7_Witness ==
    /\ call.op = "write_xsi" /\ raised = ""
    /\ \E p \in DOMAIN file :
          /\ file[p] = "\nSI_EnvelopeList Blender {"
          /\ file[p + 1] = "\t2,"
          /\ file[p + 2] = "\tSI_Envelope My_Object_ {"
          /\ file[p + 3] = "\t\t\"MDL-My_Object_\","
          /\ file[p + 4] = "\t\t\"MDL-A\","
          /\ file[p + 5] = "\t\t0,50.000000,"
          /\ file[p + 6] = "\t\t1,100.000000,\n"
          /\ file[p + 7] = "\t}"
          /\ file[p + 8] = "\tSI_Envelope My_Object_ {"
          /\ file[p + 10] = "\t\t\"MDL-unnamed\","

\* The name write_si_model passes to write_mesh for the mesh of Frame f.
MeshName(f) == IF heap[f].mesh[1].name # <<>> THEN heap[f].mesh[1].name ELSE heap[f].name

\* The opening lines of the blocks the Writer names after Frame f, with the
\* names in the form San(name).
BlockLines(f, San(_)) ==
    LET frame == heap[f]
        t == Depth(f)
    IN  {Tabs(t) \o "SI_Model MDL-" \o San(frame.name) \o " {"}
        \cup (IF frame.basepose_sca_xyz # <<>>
              THEN {Tabs(t + 1) \o "SI_Transform BASEPOSE-" \o San(frame.name) \o " {"}
              ELSE {})
        \cup (IF frame.srt_sca_xyz # <<>>
              THEN {Tabs(t + 1) \o "SI_Transform SRT-" \o San(frame.name) \o " {"}
              ELSE {})
        \cup (IF frame.is_bone
              THEN {Tabs(t + 1) \o "SI_Null " \o San(frame.name) \o " {"}
              ELSE {})
        \cup (IF frame.mesh # <<>>
              THEN {Tabs(t + 1) \o "SI_Mesh MSH-" \o San(MeshName(f)) \o " {"}
              ELSE {})
        \cup (IF /\ frame.mesh # <<>>
                 /\ frame.mesh[1].faces # <<>>
                 /\ \E i \in DOMAIN frame.mesh[1].face_materials :
                       frame.mesh[1].face_materials[i].texture # <<>>
              THEN {Tabs(t + 1) \o "XSI_CustomPSet " \o San(frame.name) \o " {"}
              ELSE {})
        \cup (IF frame.mesh # <<>> /\ frame.mesh[1].vertices # <<>>
              THEN {Tabs(t + 2) \o "SI_Shape SHP-" \o San(MeshName(f)) \o "-ORG {",
                    Tabs(t + 2) \o "SI_TriangleList " \o San(MeshName(f)) \o " {"}
              ELSE {})
        \cup (IF frame.envelopes # <<>>
              THEN {"\tSI_Envelope " \o San(frame.name) \o " {",
                    "\t\t\"MDL-" \o San(frame.name) \o "\","}
                   \cup {"\t\t\"MDL-" \o San(heap[frame.envelopes[i].bone].name) \o "\","
                            : i \in DOMAIN frame.envelopes}
              ELSE {})

FileLines == {file[i] : i \in DOMAIN file}

\* C10: get_safe_name keeps the length of a name, keeps each of A-Za-z0-9_-
\* and puts _ for every other character ("My Object!" gives "My_Object_"), and
\* gives "unnamed" for the empty name; every block identifier the Writer makes
\* from a frame, mesh or bone name (MDL-, BASEPOSE-, SRT-, SI_Null, MSH-, SHP-,
\* SI_TriangleList, XSI_CustomPSet, SI_Envelope and its references) is written
\* in that form, and
\* never with the name as it is.
C10_SafeNames ==
    /\ \A f \in DOMAIN heap : IsSanitized(heap[f].name, get_safe_name(heap[f].name))
    /\ \A name \in ShortNames : IsSanitized(name, get_safe_name(name))
    /\ (call.op = "write_xsi" /\ raised = "")
       => \A f \in DocFrames :
             /\ BlockLines(f, Sanitized) \subseteq FileLines
             /\ (BlockLines(f, Str) \ BlockLines(f, Sanitized)) \cap FileLines = {}

\* C10 witness: the frame named "My Object!", skinned to an unnamed bone with a
\* mesh, was written.
C10_Witness ==
    /\ call.op = "write_xsi" /\ raised = ""
    /\ {"SI_Model MDL-My_Object_ {", "\tSI_Transform BASEPOSE-My_Object_ {",
        "\tSI_Transform SRT-My_Object_ {", "\tSI_Mesh MSH-My_Object_ {",
        "\tXSI_CustomPSet My_Object_ {",
        "\t\tSI_Shape SHP-My_Object_-ORG {", "\t\tSI_TriangleList My_Object_ {",
        "\tSI_Envelope My_Object_ {", "\t\t\"MDL-unnamed\",",
        "\tSI_Model MDL-unnamed {", "\t\tSI_Null unnamed {",
        "\t\tSI_Mesh MSH-Cube_001 {"} \subseteq FileLines

\* The places of file that hold line.
Places(line) == {p \in DOMAIN file : file[p] = line}

\* The place where the block opened at place p with t tabs is closed: the
\* first later line that is a closing brace with t tabs.
BlockEnd(p, t) ==
    LET closing == {q \in DOMAIN file : q > p /\ file[q] \in {Tabs(t) \o "}\n", Tabs(t) \o "}"}}
    IN  IF closing = {} THEN Len(file) + 1
        ELSE CHOOSE q \in closing : \A r \in closing : q <= r

\* The pairs (F, C) of the Document: C is a child of F and has a mesh with vertices.
MeshChildren ==
    {fc \in DocFrames \X DocFrames :
        /\ \E i \in DOMAIN heap[fc[1]].frames : heap[fc[1]].frames[i] = fc[2]
        /\ heap[fc[2]].mesh # <<>>
        /\ heap[fc[2]].mesh[1].vertices # <<>>}

\* In file, the block SI_Model MDL-<C> lies inside a block SI_Model MDL-<F>,
\* and holds a block SI_Mesh MSH-<mesh> that holds the block SI_Shape
\* SHP-<mesh>-ORG and, after it, the block SI_TriangleList <mesh>.
NestedMeshBlocks(f, c, mesh) ==
    LET t == Depth(f)
    IN  \E pF \in Places(Tabs(t) \o "SI_Model MDL-" \o Sanitized(heap[f].name) \o " {") :
        \E pC \in Places(Tabs(t + 1) \o "SI_Model MDL-" \o Sanitized(heap[c].name) \o " {") :
        \E pM \in Places(Tabs(t + 2) \o "SI_Mesh MSH-" \o mesh \o " {") :
        \E pS \in Places(Tabs(t + 3) \o "SI_Shape SHP-" \o mesh \o "-ORG {") :
        \E pT \in Places(Tabs(t + 3) \o "SI_TriangleList " \o mesh \o " {") :
            /\ pF < pC /\ BlockEnd(pC, t + 1) < BlockEnd(pF, t)
            /\ pC < pM /\ BlockEnd(pM, t + 2) < BlockEnd(pC, t + 1)
            /\ pM < pS /\ BlockEnd(pS, t + 3) < pT
            /\ BlockEnd(pT, t + 3) < BlockEnd(pM, t + 2)
            /\ BlockEnd(pF, t) <= Len(file)

\* C11 as stated: for every frame F with a child C that has a mesh with
\* vertices, the output holds SI_Model MDL-<C> inside SI_Model MDL-<F>, and in
\* it SI_Mesh MSH-<C> holding SI_Shape SHP-<C>-ORG followed by SI_TriangleList <C>.
C11_AsStated ==
    (call.op = "write_xsi" /\ raised = "")
    => \A fc \in MeshChildren :
          NestedMeshBlocks(fc[1], fc[2], Sanitized(heap[fc[2]].name))

\* C11 amended: the same, with the mesh blocks named after the mesh when the
\* mesh has a name of its own, and after the frame C only when it has none.
C11_NestedMeshBlocks ==
    (call.op = "write_xsi" /\ raised = "")
    => \A fc \in MeshChildren :
          NestedMeshBlocks(fc[1], fc[2], Sanitized(MeshName(fc[2])))

\* C11 witness: the Root/Box example was written, and so was a frame whose
\* mesh has a name that is not the frame's.
C11_Witness ==
    /\ call.op = "write_xsi" /\ raised = ""
    /\ \E fc \in MeshChildren :
          /\ heap[fc[1]].name = <<"R", "o", "o", "t">>
          /\ heap[fc[2]].name = <<"B", "o", "x">>
          /\ NestedMeshBlocks(fc[1], fc[2], "Box")
    /\ \E fc \in MeshChildren :
          /\ heap[fc[2]].mesh[1].name # <<>>
          /\ heap[fc[2]].mesh[1].name # heap[fc[2]].name
          /\ NestedMeshBlocks(fc[1], fc[2], "Cube_001")

\* The lines that open the header blocks, in the order the claim gives them.
HeaderBlocks ==
    <<"SI_FileInfo {", "SI_Scene Blender {", "SI_CoordinateSystem coord {", "SI_Angle {",
      "SI_Ambience {", "SI_MaterialLibrary MATLIB-" \o blend_filename \o " {">>

\* The line that opens the top-level SI_Model block of a frame named name.
TopModelLine(name) == "SI_Model MDL-" \o Sanitized(name) \o " {"

\* The places of file that open a top-level SI_Model block, in order.
TopModelPlaces ==
    LET lines == {TopModelLine(heap[f].name) : f \in DOMAIN heap}
    IN  SelectSeq([p \in 1 .. Len(file) |-> p], LAMBDA p : file[p] \in lines)

\* The only place of file that holds line, 0 when it is not there just once.
ThePlace(line) ==
    LET places == Places(line)
    IN  IF Cardinality(places) = 1 THEN CHOOSE p \in places : TRUE ELSE 0

\* C12: the output starts with the line "xsi 0300txt 0032"; then come the
\* file-info, scene, coordinate-system, angle, ambience and material-library
\* blocks, once each and in that order; then one top-level SI_Model block for
\* each root frame, in root order; and last one SI_EnvelopeList block, which is
\* there if and only if some frame has envelopes.
C12_FileLayout ==
    (call.op = "write_xsi" /\ raised = "")
    => LET header == [i \in DOMAIN HeaderBlocks |-> ThePlace(HeaderBlocks[i])]
           header_end == [i \in DOMAIN HeaderBlocks |-> BlockEnd(header[i], 0)]
           models == TopModelPlaces
           models_end == [i \in DOMAIN models |-> BlockEnd(models[i], 0)]
           envelopes == Places("\nSI_EnvelopeList Blender {")
       IN  /\ file[1] = "xsi 0300txt 0032\n"
           /\ \A i \in DOMAIN header : header[i] > 1
           /\ \A i \in 1 .. Len(header) - 1 : header_end[i] < header[i + 1]
           /\ \A i \in DOMAIN models : header_end[Len(header)] < models[i]
           /\ Len(models) = Len(xsi_frames)
           /\ \A i \in DOMAIN xsi_frames :
                 /\ file[models[i]] = TopModelLine(heap[xsi_frames[i]].name)
                 /\ models_end[i] <= Len(file)
                 /\ i < Len(xsi_frames) => models_end[i] < models[i + 1]
           /\ IF \E f \in DocFrames : heap[f].envelopes # <<>>
              THEN /\ Cardinality(envelopes) = 1
                   /\ \A p \in envelopes :
                         /\ \A i \in DOMAIN models : models_end[i] < p
                         /\ BlockEnd(p, 0) = Len(file)
              ELSE envelopes = {}

\* C12 witness: a Document of two roots, one of them skinned, was written; and
\* so was a Document without envelopes.
C12_Witness ==
    /\ call.op = "write_xsi" /\ raised = ""
    /\ Len(xsi_frames) = 2
    /\ \E f \in DocFrames : heap[f].envelopes # <<>>
    /\ Len(TopModelPlaces) = 2
    /\ ThePlace("\nSI_EnvelopeList Blender {") > TopModelPlaces[2]

\* The line that opens the SI_Model block of Frame f, at the depth of f.
ModelLine(f) == Tabs(Depth(f)) \o "SI_Model MDL-" \o Sanitized(heap[f].name) \o " {"

\* The lines of file that open an SI_Model block, at any depth, in order.
ModelLines ==
    LET lines == {Tabs(t) \o "SI_Model MDL-" \o Sanitized(heap[f].name) \o " {" :
                     t \in 0 .. Len(heap), f \in DOMAIN heap}
    IN  SelectSeq(file, LAMBDA line : line \in lines)

\* C13: the SI_Model blocks are opened in the order of get_all_frames(): the
\* depth-first pre-order of the frame tree, siblings in the order of the
\* children list of their parent.
C13_ModelOrder ==
    (call.op = "write_xsi" /\ raised = "")
    => ModelLines = [i \in DOMAIN get_all_frames(0) |-> ModelLine(get_all_frames(0)[i])]

\* C13 witness: a Document was written in which a frame with a child is
\* followed by a sibling of another name, so that pre-order differs from the
\* order by depth.
C13_Witness ==
    /\ call.op = "write_xsi" /\ raised = ""
    /\ Len(ModelLines) = 3
    /\ \E f, g, h \in DocFrames :
          /\ get_all_frames(0) = <<f, g, h>>
          /\ heap[f].frames = <<g>> /\ xsi_frames = <<f, h>>
          /\ heap[g].name # heap[h].name /\ heap[f].name # heap[h].name

\* The lines of the envelope list that name a frame: "MDL-<name>", between
\* quotes.
ReferenceLines == {"\t\t\"MDL-" \o Sanitized(heap[g].name) \o "\"," : g \in DOMAIN heap}

\* The lines that open a block: those of the header and of the envelope list,
\* and those of the blocks of each Frame.
OpenLines ==
    ({"SI_FileInfo {", "SI_Scene Blender {", "SI_CoordinateSystem coord {", "SI_Angle {",
      "SI_Ambience {", "SI_MaterialLibrary MATLIB-" \o blend_filename \o " {",
      "\tSI_Material default_material {", "\t\tSI_Texture2D {",
      "\nSI_EnvelopeList Blender {"}
     \cup UNION {BlockLines(f, Sanitized) : f \in DocFrames}
     \cup {Tabs(Depth(f) + 1) \o "SI_Visibility {" : f \in DocFrames}
     \cup {Tabs(Depth(f) + 1) \o "SI_GlobalMaterial {" : f \in DocFrames})
    \ ReferenceLines

\* The lines that close a block: "}" at some indentation.
CloseLines ==
    {Tabs(t) \o "}" : t \in 0 .. Len(heap) + 2} \cup {Tabs(t) \o "}\n" : t \in 0 .. Len(heap) + 2}

\* The running depth after each of the lines lo .. hi of lines, from the depth
\* base before them: +1 for a line of opens, -1 for a line of closes.
RECURSIVE RunningDepth(_, _, _, _, _, _)
RunningDepth(lines, opens, closes, lo, hi, base) ==
    IF lo > hi THEN <<>>
    ELSE IF lo = hi
    THEN <<IF lines[lo] \in opens THEN base + 1
           ELSE IF lines[lo] \in closes THEN base - 1 ELSE base>>
    ELSE LET mid == (lo + hi) \div 2
             left == RunningDepth(lines, opens, closes, lo, mid, base)
         IN  left \o RunningDepth(lines, opens, closes, mid + 1, hi, left[Len(left)])

\* The place of the line that closes the block opened at place p, 0 if none,
\* given the running depth.
ClosingOf(depth, p) ==
    LET ends == {q \in DOMAIN depth : q > p /\ depth[q] = depth[p] - 1}
    IN  IF ends = {} THEN 0 ELSE CHOOSE q \in ends : \A r \in ends : q <= r

\* C25: in the output of a serialization that returns, blocks are well nested:
\* with +1 for each line that opens a block and -1 for each closing line, the
\* running depth is never negative and is zero after the last line, and the
\* SI_Model block of a child frame closes before that of its parent closes.
C25_WellNested ==
    (call.op = "write_xsi" /\ raised = "")
    => LET open_lines == OpenLines
           close_lines == CloseLines
           depth == RunningDepth(file, open_lines, close_lines, 1, Len(file), 0)
           frames == get_all_frames(0)
           model_lines == {ModelLine(f) : f \in DocFrames}
           places == SelectSeq([p \in DOMAIN file |-> p], LAMBDA p : file[p] \in model_lines)
           closing == [k \in DOMAIN places |-> ClosingOf(depth, places[k])]
       IN  /\ \A i \in DOMAIN depth : depth[i] >= 0
           /\ depth[Len(file)] = 0
           /\ Len(places) = Len(frames)
           /\ \A k, j \in DOMAIN frames :
                 heap[frames[j]].parent = frames[k]
                 => /\ places[k] < places[j]
                    /\ closing[j] > places[j]
                    /\ closing[j] < closing[k]

\* C25 witness: a Document was written in which a frame with both transform
\* blocks and a mesh is the child of another frame, and which has envelopes.
C25_Witness ==
    /\ call.op = "write_xsi" /\ raised = ""
    /\ "\nSI_EnvelopeList Blender {" \in FileLines
    /\ \E f \in DocFrames :
          /\ heap[f].parent # 0 /\ heap[f].mesh # <<>>
          /\ heap[f].srt_sca_xyz # <<>> /\ heap[f].basepose_sca_xyz # <<>>
          /\ Tabs(1) \o "SI_Model MDL-" \o Sanitized(heap[f].name) \o " {" \in FileLines

(***************************************************************************)
(* blend2xsi3.py: the Writer and the host's wall clock                     *)
(*                                                                         *)
(* The Documents of SpecWrite with fewer Frames, written at any moment and *)
(* any number of times while the host's clock advances.                    *)
(***************************************************************************)
MaxCFrames == 2
MaxNow == 2

ClockInit ==
    /\ \E n \in 0 .. MaxCFrames :
         \E par \in Shapes(n), kind \in [1 .. n -> FrameKinds] :
            /\ heap = BuildHeap(par, kind)
            /\ xsi_frames = Ascending({j \in 1 .. n : par[j] = 0})
    /\ frame_table = EmptyTable
    /\ DUPLICATE_FRAME_NOEXCEPT = FALSE
    /\ file = <<>>
    /\ now = 0
    /\ frame_start = 1
    /\ frame_end = 3
    /\ call = NoCall
    /\ raised = ""
    /\ IdleKey /\ IdleMath /\ IdleMaterial /\ IdleSave

\* A second passes on the host's wall clock.
Tick ==
    /\ now < MaxNow
    /\ now' = now + 1
    /\ UNCHANGED <<frame_start, frame_end, docVars, apiVars, fileVars, keyVars, mathVars,
                   materialVars, saveVars>>

ClockNext == Write \/ Tick

SpecClock == ClockInit /\ [][ClockNext]_vars

\* The Document was serialized: file holds the text of that serialization.
Serialized == call.op = "write_xsi" /\ raised = ""

\* The line of SI_FileInfo that holds the date, and its place in the file.
DateLine(seconds) == Tabs(1) \o "\"" \o strftime(seconds) \o "\","
DatePlace == CHOOSE p \in DOMAIN file : \E seconds \in 0 .. MaxNow : file[p] = DateLine(seconds)

MaxKeys == 2
MaxKeyframe == 1

\* The vectors a client passes to add_key: lengths 2 to 5.
KeyVectors ==
    {<<1, 2>>, <<1, 2, 3>>, <<3, 2, 1>>, <<1, 2, 3, 4>>, <<4, 3, 2, 1>>, <<1, 2, 3, 4, 5>>}

\* A mutation of TYPE_SIZE: the quaternion has three components.
TYPE_SIZE_all_three == <<3, 3, 3, 3>>

\* AnimationKey.TYPE_SIZE, indexed from key_type 0.
TYPE_SIZE == <<4, 3, 3, 3>>

\* AnimationKey.__init__(key_type), for a key_type in range(4)
AnimationKey(key_type) ==
    [key_type |-> key_type, keys |-> <<>>, vector_size |-> TYPE_SIZE[key_type + 1]]

\* The constructor call: raises ValueError for a key_type outside range(4).
NewAnimationKey(key_type) ==
    /\ animkey = <<>>
    /\ call' = Call("AnimationKey", 0, <<>>, <<key_type>>)
    /\ IF key_type \notin 0 .. 3
       THEN raised' = "ValueError" /\ UNCHANGED animkey
       ELSE raised' = "" /\ animkey' = <<AnimationKey(key_type)>>

\* AnimationKey.add_key(self, keyframe, vector)
add_key(keyframe, vector) ==
    /\ animkey # <<>>
    /\ call' = Call("add_key", 0, <<>>, <<keyframe, vector>>)
    /\ IF Len(vector) # animkey[1].vector_size
       THEN raised' = "ValueError" /\ UNCHANGED animkey
       ELSE /\ raised' = ""
            /\ animkey' = <<[animkey[1] EXCEPT !.keys = Append(@, <<keyframe, vector>>)]>>

KeyInit ==
    /\ animkey = <<>>
    /\ call = NoCall
    /\ raised = ""
    /\ IdleDoc /\ IdleFile /\ IdleHost /\ IdleMath /\ IdleMaterial /\ IdleSave

NewKey ==
    \E key_type \in -1 .. 4 :
        /\ NewAnimationKey(key_type)
        /\ UNCHANGED <<docVars, fileVars, hostVars, mathVars, materialVars, saveVars>>

\* A client call of add_key; the model stops adding keys at MaxKeys.
AddKey ==
    \E keyframe \in 0 .. MaxKeyframe, vector \in KeyVectors :
        /\ animkey # <<>>
        /\ Len(animkey[1].keys) < MaxKeys \/ Len(vector) # animkey[1].vector_size
        /\ add_key(keyframe, vector)
        /\ UNCHANGED <<docVars, fileVars, hostVars, mathVars, materialVars, saveVars>>

KeyNext == NewKey \/ AddKey

SpecKey == KeyInit /\ [][KeyNext]_vars

\* The arity the claim gives each key type: 4 for the quaternion, 3 otherwise.
ClaimedArity(key_type) == IF key_type = 0 THEN 4 ELSE 3

\* C8: for an AnimationKey of type k, add_key(frame, v) raises ValueError and
\* leaves keys unchanged when len(v) is not the arity of k (4 for quaternion, 3
\* for scale, translation and Euler), and otherwise appends (frame, v) as the
\* last key, v unchanged.
C8_AddKeyArity ==
    [][\A keyframe \in 0 .. MaxKeyframe, vector \in KeyVectors :
          call' = Call("add_key", 0, <<>>, <<keyframe, vector>>)
          => IF Len(vector) # ClaimedArity(animkey[1].key_type)
             THEN raised' = "ValueError" /\ animkey' = animkey
             ELSE /\ raised' = ""
                  /\ animkey'[1].keys = Append(animkey[1].keys, <<keyframe, vector>>)
                  /\ animkey'[1].key_type = animkey[1].key_type]_vars

\* C8 witness: a quaternion key holds a 4-vector and then refused a 3-vector.
C8_Witness ==
    /\ animkey # <<>>
    /\ animkey[1].key_type = 0
    /\ Len(animkey[1].keys) = 1
    /\ animkey[1].keys[1][2] = <<4, 3, 2, 1>>
    /\ raised = "ValueError"
    /\ call.op = "add_key"
    /\ Len(call.arg[2]) = 3

(***************************************************************************)
(* xsi_blender_exporter.py: the basis conversion of a 4x4 matrix           *)
(***************************************************************************)
MaxApply == 2

\* The rows the input matrices are made of.
MatrixRows ==
    {<<1, 0, 0, 0>>, <<0, 1, 0, 0>>, <<0, 0, 1, 0>>, <<1, 2, 3, 1>>, <<0, -1, 2, 0>>}

\* The matrices handed to the conversion.
MatrixInputs == {<<r1, r2, r3, r4>> : r1 \in MatrixRows, r2 \in MatrixRows,
                                      r3 \in MatrixRows, r4 \in MatrixRows}

\* -v for a Vector v
Negated(v) == [i \in DOMAIN v |-> 0 - v[i]]

\* A mutation of matrix_to_xsi: rows and columns swapped with no sign change.
matrix_to_xsi_no_sign(m) ==
    LET rows == <<m[1], m[3], m[2], m[4]>>
    IN  [i \in 1 .. 4 |-> <<rows[i][1], rows[i][3], rows[i][2], rows[i][4]>>]

\* Save.matrix_to_xsi(matrix): the value of matrix after the call.  Rows and
\* columns are indexed from 1 here, so row[1] of the code is m[2].
matrix_to_xsi(m) ==
    LET row_y == Negated(m[2])
        row_z == m[3]
        rows == <<m[1], row_z, row_y, m[4]>>
        \* the columns of rows: col[1] and col[2] of the code
        col_y == [i \in 1 .. 4 |-> 0 - rows[i][2]]
        col_z == [i \in 1 .. 4 |-> rows[i][3]]
    IN  [i \in 1 .. 4 |-> <<rows[i][1], col_z[i], col_y[i], rows[i][4]>>]

MathInit ==
    /\ matrix_in \in MatrixInputs
    /\ matrix = matrix_in
    /\ applied = 0
    /\ call = NoCall
    /\ raised = ""
    /\ IdleDoc /\ IdleFile /\ IdleHost /\ IdleKey /\ IdleMaterial /\ IdleSave

\* One call of matrix_to_xsi on the matrix.
MatrixToXsi ==
    /\ applied < MaxApply
    /\ matrix' = matrix_to_xsi(matrix)
    /\ applied' = applied + 1
    /\ call' = Call("matrix_to_xsi", 0, <<>>, <<>>)
    /\ UNCHANGED <<matrix_in, raised, docVars, fileVars, hostVars, keyVars,
                   materialVars, saveVars>>

MathNext == MatrixToXsi

SpecMath == MathInit /\ [][MathNext]_vars

\* Entry (i, j) lies in exactly one of the swapped rows and swapped columns.
Mixed(i, j) == (i \in {2, 3}) # (j \in {2, 3})

\* C9: matrix_to_xsi is not an involution: applied twice it negates the entries
\* that lie in exactly one of the swapped rows/columns, so the result differs
\* from the original matrix M whenever M has such an entry that is not zero.
C9_TwiceNegatesMixed ==
    applied = 2 =>
        /\ \A i, j \in 1 .. 4 :
              matrix[i][j] = IF Mixed(i, j) THEN 0 - matrix_in[i][j] ELSE matrix_in[i][j]
        /\ (matrix # matrix_in) <=> (\E i, j \in 1 .. 4 : Mixed(i, j) /\ matrix_in[i][j] # 0)

\* C9 witness: a matrix that two applications do not give back.
C9_Witness == applied = 2 /\ matrix # matrix_in

(***************************************************************************)
(* blend2xsi3.py: Material and Mesh.get_material_indices                   *)
(*                                                                         *)
(* A colour is kept with the kind of its Python container, because == of a *)
(* list and a tuple is False whatever they hold.                           *)
(***************************************************************************)
MaxFaces == 3

\* A Python list and a Python tuple of the items.
PyList(items) == [kind |-> "list", items |-> items]
PyTuple(items) == [kind |-> "tuple", items |-> items]

\* Material.__init__(diffuse, hardness, texture), the other arguments left at
\* their defaults; diffuse is an optional colour of three or four items:
\* "+=" keeps the kind of the container it extends.
Material__init__(diffuse, hardness, texture) ==
    LET given == IF diffuse # <<>> /\ diffuse[1].items # <<>> THEN diffuse[1]
                 ELSE PyList(DEFAULT_DIFFUSE)
    IN  [diffuse |-> IF Len(given.items) = 3
                     THEN [given EXCEPT !.items = Append(@, 1000000)] ELSE given,
         hardness |-> hardness,
         specular |-> PyList(DEFAULT_SPECULAR), ambient |-> PyList(DEFAULT_AMBIENT),
         emissive |-> PyList(DEFAULT_EMISSIVE), shading_type |-> DEFAULT_SHADING_TYPE,
         texture |-> texture]

\* The Materials of the faces: the default, the colour of the pointer mesh,
\* the default colour given as a tuple, another hardness, and two textures.
MaterialInputs ==
    { Material__init__(<<>>, DEFAULT_HARDNESS, <<>>),
      Material__init__(<<PyTuple(<<1000000, 1000000, 1000000>>)>>, DEFAULT_HARDNESS, <<>>),
      Material__init__(<<PyTuple(DEFAULT_DIFFUSE)>>, DEFAULT_HARDNESS, <<>>),
      Material__init__(<<>>, 50000000, <<>>),
      Material__init__(<<>>, DEFAULT_HARDNESS, <<"models/a.tga">>),
      Material__init__(<<>>, DEFAULT_HARDNESS, <<"models/b.tga">>) }

\* The lists of at most n Materials.
RECURSIVE MaterialLists(_)
MaterialLists(n) ==
    IF n = 0 THEN {<<>>}
    ELSE MaterialLists(n - 1)
         \cup {Append(l, m) : l \in {k \in MaterialLists(n - 1) : Len(k) = n - 1},
                              m \in MaterialInputs}

MaterialInit ==
    /\ \E l \in MaterialLists(MaxFaces) : bz2mesh = <<[Mesh(<<>>) EXCEPT !.face_materials = l]>>
    /\ returned = <<>>
    /\ call = NoCall
    /\ raised = ""
    /\ IdleDoc /\ IdleFile /\ IdleHost /\ IdleKey /\ IdleMath /\ IdleSave

\* A call of get_material_indices on the mesh.
GetMaterialIndices ==
    /\ returned = <<>>
    /\ returned' = <<get_material_indices(bz2mesh[1])>>
    /\ call' = Call("get_material_indices", 0, <<>>, <<>>)
    /\ UNCHANGED <<bz2mesh, raised, docVars, fileVars, hostVars, keyVars, mathVars, saveVars>>

MaterialNext == GetMaterialIndices

SpecMaterial == MaterialInit /\ [][MaterialNext]_vars

\* The places of l whose Material occurs at no earlier place of l.
FirstOccurrences(l) == {i \in DOMAIN l : \A j \in 1 .. i - 1 : l[j] # l[i]}

\* The elements of l at the places of the set, in ascending order of place.
RECURSIVE Picked(_, _, _)
Picked(l, places, i) ==
    IF i > Len(l) THEN <<>>
    ELSE (IF i \in places THEN <<l[i]>> ELSE <<>>) \o Picked(l, places, i + 1)

\* C22: get_material_indices returns (indices, materials) such that materials
\* holds no two equal Materials and lists them in the order of their first
\* occurrence in face_materials, indices has one entry for each entry of
\* face_materials, and materials[indices[i]] equals face_materials[i].
C22_Deduplicated ==
    returned # <<>>
    => LET l == bz2mesh[1].face_materials
           indices == returned[1].indices
           materials == returned[1].materials
       IN  /\ \A i, j \in DOMAIN materials : materials[i] = materials[j] => i = j
           /\ materials = Picked(l, FirstOccurrences(l), 1)
           /\ Len(indices) = Len(l)
           /\ \A i \in DOMAIN l : /\ indices[i] \in 0 .. Len(materials) - 1
                                  /\ materials[indices[i] + 1] = l[i]

\* C22 witness: the indices of three faces, the first and the last with the
\* same Material, were returned.
C22_Witness ==
    /\ returned # <<>>
    /\ Len(bz2mesh[1].face_materials) = 3
    /\ bz2mesh[1].face_materials[1] = bz2mesh[1].face_materials[3]
    /\ bz2mesh[1].face_materials[1] # bz2mesh[1].face_materials[2]
    /\ returned[1].indices = <<0, 1, 0>>
    /\ Len(returned[1].materials) = 2

(***************************************************************************)
(* xsi_blender_exporter.py: Save                                           *)
(*                                                                         *)
(* The host scene is bpy_objects: a host object is its index there, and 0  *)
(* is None.  Every object is in the active collection.  A host matrix is   *)
(* not computed: a transform is the record of how Save derived it.  Save   *)
(* runs in steps: SaveBegin, one step for each object visited and each     *)
(* return of object_to_bz2frame, the skin binding, and the restore.        *)
(***************************************************************************)
MaxObjs == 2

ALLOWED_SUB_OBJECTS_GLOBAL == {"MESH", "EMPTY", "ARMATURE"}
ALLOW_MESH_WITH_NO_FACES == FALSE
ALLOW_MESH_WITH_NO_MATERIAL == FALSE
ALLOW_ROOT_LEVEL_ANIMS == TRUE
USE_FRAME_NAME_AS_MESH_NAME == TRUE

\* The defaults of the export operator's properties.
DefaultOptions ==
    [export_mode |-> "ACTIVE_COLLECTION", zero_root_transforms |-> TRUE,
     export_mesh |-> TRUE, export_mesh_uvmap |-> TRUE, export_mesh_materials |-> TRUE,
     export_mesh_vertcolor |-> TRUE, export_envelopes |-> TRUE, export_jedi |-> TRUE,
     export_facefix |-> TRUE, export_animations |-> TRUE, export_euler |-> TRUE,
     generate_empty_mesh |-> FALSE, generate_bone_mesh |-> FALSE]

\* The option sets of the model: the defaults, and the defaults with one
\* option changed.  generate_bone_mesh stays off, so bone_to_bz2frame never
\* gives a bone a mesh.
Options ==
    { DefaultOptions,
      [DefaultOptions EXCEPT !.export_mode = "SELECTED_OBJECTS"],
      [DefaultOptions EXCEPT !.zero_root_transforms = FALSE],
      [DefaultOptions EXCEPT !.export_mesh = FALSE],
      [DefaultOptions EXCEPT !.export_mesh_materials = FALSE],
      [DefaultOptions EXCEPT !.export_envelopes = FALSE],
      [DefaultOptions EXCEPT !.export_animations = FALSE],
      [DefaultOptions EXCEPT !.export_jedi = FALSE],
      [DefaultOptions EXCEPT !.generate_empty_mesh = TRUE] }

\* The value the scene clock may have when the export starts.
ClockValues == {1, 5}

\* A host material with one image texture node; filepath is the sequence of
\* the pieces that "base\" separates in the image's file path.
HostMaterial(filepath) == [use_nodes |-> TRUE, image |-> <<filepath>>]

\* The data of a host mesh: a triangle with a UV layer and one material.
HostTriangle(name, filepath) ==
    [name |-> name,
     vertices |-> <<<<0, 0, 0>>, <<1000000, 0, 0>>, <<0, 1000000, 2000000>>>>,
     polygons |-> <<[vertices |-> <<0, 1, 2>>, material_index |-> 0]>>,
     materials |-> <<HostMaterial(filepath)>>,
     normals |-> <<<<0, 0, 1000000>>, <<0, 0, 1000000>>, <<0, 0, 1000000>>>>,
     uv |-> <<<<0, 0>>, <<1000000, 0>>, <<0, 1000000>>>>,
     colors |-> <<>>]

\* The data of a host mesh with no material slot and no UV layer: a square of
\* two triangles, with a normal for each of the six loops.
HostPlane(name) ==
    [name |-> name,
     vertices |-> <<<<0, 0, 0>>, <<1000000, 0, 0>>, <<1000000, 1000000, 0>>,
                    <<0, 1000000, 0>>>>,
     polygons |-> <<[vertices |-> <<0, 1, 2>>, material_index |-> 0],
                    [vertices |-> <<0, 2, 3>>, material_index |-> 0]>>,
     materials |-> <<>>,
     normals |-> [i \in 1 .. 6 |-> <<0, 0, 1000000>>],
     uv |-> <<>>,
     colors |-> <<>>]

\* A host object without its place in the scene.  keyed lists the F-curves of
\* its action that have key points in range, in the order Save meets them:
\* bone 0 is the object itself, bone k the k-th bone of an armature.
HostObject(name, type, select, skinned, data, bones, vertex_groups, has_action, keyed) ==
    [name |-> name, type |-> type, select |-> select, skinned |-> skinned,
     data |-> data, bones |-> bones, vertex_groups |-> vertex_groups,
     has_action |-> has_action, keyed |-> keyed]

ObjectKinds ==
    { HostObject(<<"m", "e", "s", "h", "_", "r", "o", "o", "t">>, "EMPTY", TRUE, FALSE,
                 <<>>, <<>>, <<>>, FALSE, <<>>),
      HostObject(<<"s", "k", "e", "l", "e", "t", "o", "n", "_", "r", "o", "o", "t">>, "EMPTY",
                 TRUE, FALSE, <<>>, <<>>, <<>>, FALSE, <<>>),
      HostObject(<<"C", "u", "b", "e">>, "MESH", TRUE, FALSE,
                 <<HostTriangle(<<"C", "u", "b", "e">>, <<"//textures/wall.png">>)>>,
                 <<>>, <<>>, FALSE, <<>>),
      HostObject(<<"P", "l", "a", "n", "e">>, "MESH", TRUE, FALSE,
                 <<HostPlane(<<"P", "l", "a", "n", "e">>)>>,
                 <<>>, <<>>, FALSE, <<>>),
      HostObject(<<"B", "o", "d", "y">>, "MESH", TRUE, TRUE,
                 <<HostTriangle(<<"B", "o", "d", "y">>,
                                <<"C:\\game\\", "models\\body.tga">>)>>,
                 <<>>,
                 << [name |-> <<"A">>, weights |-> <<<<0, 500000>>, <<1, 1000000>>>>],
                    [name |-> <<"B">>, weights |-> <<<<2, 750000>>>>],
                    [name |-> <<"t", "a", "i", "l">>, weights |-> <<<<2, 250000>>>>] >>,
                 FALSE, <<>>),
      HostObject(<<"A", "r", "m", "a", "t", "u", "r", "e">>, "ARMATURE", TRUE, FALSE,
                 <<>>,
                 << [name |-> <<"A">>, parent |-> 0], [name |-> <<"B">>, parent |-> 1] >>,
                 <<>>, TRUE,
                 << [bone |-> 2, path |-> "rotation_euler"],
                    [bone |-> 2, path |-> "scale"] >>),
      HostObject(<<"S", "p", "i", "n">>, "EMPTY", FALSE, FALSE,
                 <<>>, <<>>, <<>>, TRUE,
                 << [bone |-> 0, path |-> "location"],
                    [bone |-> 0, path |-> "rotation_euler"] >>),
      HostObject(<<"L", "a", "m", "p">>, "LIGHT", TRUE, FALSE,
                 <<>>, <<>>, <<>>, FALSE, <<>>) }

\* The scene of shape par whose objects are of kind: a skinned object has an
\* armature modifier for the first armature of the scene.
BuildScene(par, kind) ==
    LET armatures == Ascending({j \in DOMAIN kind : kind[j].type = "ARMATURE"})
    IN  [i \in DOMAIN par |->
            [name |-> kind[i].name, type |-> kind[i].type, parent |-> par[i],
             hide_viewport |-> FALSE, select |-> kind[i].select,
             armature |-> IF kind[i].skinned /\ armatures # <<>> THEN armatures[1] ELSE 0,
             data |-> kind[i].data, bones |-> kind[i].bones,
             vertex_groups |-> kind[i].vertex_groups,
             has_action |-> kind[i].has_action, keyed |-> kind[i].keyed]]

\* obj.children
children(obj) == Ascending({j \in DOMAIN bpy_objects : bpy_objects[j].parent = obj})

\* obj_hierarchy_to_linear(bpy_objects); SubObjects is its inner loop.
RECURSIVE obj_hierarchy_to_linear(_), SubObjects(_)
SubObjects(subs) ==
    IF subs = <<>> THEN <<>>
    ELSE (IF bpy_objects[Head(subs)].type \in ALLOWED_SUB_OBJECTS_GLOBAL
          THEN <<Head(subs)>> ELSE <<>>)
         \o obj_hierarchy_to_linear(<<Head(subs)>>)
         \o SubObjects(Tail(subs))
obj_hierarchy_to_linear(objs) ==
    IF objs = <<>> THEN <<>>
    ELSE SubObjects(children(Head(objs))) \o obj_hierarchy_to_linear(Tail(objs))

\* get_armature(bpy_obj): the object of the first armature modifier, or None.
get_armature(obj) == bpy_objects[obj].armature

\* The list objects of Save.__init__, by export mode.
ChosenObjects ==
    IF opt.export_mode = "ACTIVE_COLLECTION"
    THEN SelectSeq([i \in DOMAIN bpy_objects |-> i],
                   LAMBDA i : bpy_objects[i].parent = 0 /\ ~bpy_objects[i].hide_viewport)
    ELSE SelectSeq([i \in DOMAIN bpy_objects |-> i], LAMBDA i : bpy_objects[i].select)

\* material_to_bz2material raises IndexError: split('base\\')[1] does not exist.
material_to_bz2material_raises(material) ==
    material.use_nodes /\ material.image # <<>> /\ Len(material.image[1]) < 2

\* Save.material_to_bz2material(material), for a material with no custom
\* properties: the texture is what follows the first "base\" of the path.
material_to_bz2material(material) ==
    Material(IF material.use_nodes /\ material.image # <<>>
             THEN <<material.image[1][2]>> ELSE <<>>)

\* polygon.loop_indices of each polygon: the loops are numbered consecutively.
RECURSIVE LoopIndices(_, _)
LoopIndices(polygons, first) ==
    IF polygons = <<>> THEN <<>>
    ELSE <<[i \in 1 .. Len(Head(polygons).vertices) |-> first + i - 1]>>
         \o LoopIndices(Tail(polygons), first + Len(Head(polygons).vertices))

\* vertex.co after the swap of mesh_to_bz2mesh: "xsi style".
SwapYZ(co) == <<co[1], co[3], 0 - co[2]>>

\* mesh_to_bz2mesh(data, name) raises what material_to_bz2material raises.
mesh_to_bz2mesh_raises(data) ==
    /\ opt.export_mesh_materials
    /\ \E i \in DOMAIN data.materials : material_to_bz2material_raises(data.materials[i])

\* Save.mesh_to_bz2mesh(data, name)
mesh_to_bz2mesh(data, name) ==
    LET bz2materials ==
            IF opt.export_mesh_materials
            THEN [i \in DOMAIN data.materials |-> material_to_bz2material(data.materials[i])]
            ELSE <<>>
        normal_faces == LoopIndices(data.polygons, 0)
    IN  [Mesh(IF name # <<>> THEN name ELSE data.name) EXCEPT
            !.vertices = [i \in DOMAIN data.vertices |->
                            IF opt.export_jedi THEN SwapYZ(data.vertices[i])
                            ELSE data.vertices[i]],
            !.faces = [i \in DOMAIN data.polygons |-> data.polygons[i].vertices],
            !.face_materials =
                IF bz2materials # <<>>
                THEN [i \in DOMAIN data.polygons |->
                        bz2materials[data.polygons[i].material_index + 1]]
                ELSE IF ~ALLOW_MESH_WITH_NO_MATERIAL THEN <<Material(<<>>)>> ELSE <<>>,
            !.normal_vertices = data.normals,
            !.normal_faces = normal_faces,
            !.uv_vertices = IF data.uv # <<>> /\ opt.export_mesh_uvmap THEN data.uv ELSE <<>>,
            !.uv_faces = IF data.uv # <<>> /\ opt.export_mesh_uvmap THEN normal_faces ELSE <<>>,
            !.vertex_colors =
                IF data.colors # <<>> /\ opt.export_mesh_vertcolor THEN data.colors ELSE <<>>,
            !.vertex_color_faces =
                IF data.colors # <<>> /\ opt.export_mesh_vertcolor THEN normal_faces ELSE <<>>]

\* The host mesh after mesh_to_bz2mesh: the swap is made on vertex.co itself.
DataAfterMesh(data) ==
    IF opt.export_jedi
    THEN [data EXCEPT !.vertices = [i \in DOMAIN data.vertices |-> SwapYZ(data.vertices[i])]]
    ELSE data

\* generate_pointer_mesh(scale=0.05)
generate_pointer_mesh ==
    LET vertices == <<<<-50000, -50000, 0>>, <<50000, -50000, 0>>, <<-50000, 50000, 0>>,
                      <<50000, 50000, 0>>, <<0, 0, 350000>>>>
        faces == <<<<0, 2, 3, 1>>, <<3, 2, 4>>, <<0, 1, 4>>, <<1, 3, 4>>, <<2, 0, 4>>>>
    IN  [Mesh(<<>>) EXCEPT
            !.vertices = vertices, !.normal_vertices = vertices,
            !.faces = faces, !.normal_faces = faces,
            !.face_materials =
                [i \in DOMAIN faces |->
                    [Material(<<>>) EXCEPT
                        !.diffuse = <<1000000, 1000000, 1000000, 1000000>>]]]

\* A transform: how Save derived the matrix, and from which object or bone.
Transform(how, obj, bone) == [how |-> how, obj |-> obj, bone |-> bone]

\* A mutation of ObjectTransform: the names mesh_root and skeleton_root are
\* not special.
ObjectTransform_any_name(obj, is_root_level) ==
    IF is_root_level /\ opt.zero_root_transforms THEN Transform("Identity", 0, 0)
    ELSE IF opt.export_jedi THEN Transform("xsi style, relative to parent", obj, 0)
    ELSE Transform("matrix_local", obj, 0)

\* bz2frame.transform as object_to_bz2frame sets it.
ObjectTransform(obj, is_root_level) ==
    IF is_root_level /\ opt.zero_root_transforms THEN Transform("Identity", 0, 0)
    ELSE IF opt.export_jedi
    THEN IF bpy_objects[obj].name \in {<<"m", "e", "s", "h", "_", "r", "o", "o", "t">>,
                                       <<"s", "k", "e", "l", "e", "t", "o", "n", "_",
                                         "r", "o", "o", "t">>}
         THEN Transform("Identity", 0, 0)
         ELSE Transform("xsi style, relative to parent", obj, 0)
    ELSE Transform("matrix_local", obj, 0)

\* The bz2 keyframe type of an F-curve path.
bz2_keyframe_type(path) ==
    IF path = "scale" THEN 1
    ELSE IF path = "location" THEN 2
    ELSE IF opt.export_euler THEN 3 ELSE 0

\* The vector sampled from the host at frame pos for a key of key_type: the
\* host's matrices are not modelled, the vector has the size the conversion
\* gives it (4 for to_quaternion, 3 for the others).
Sample(pos, key_type) == [i \in 1 .. (IF key_type = 0 THEN 4 ELSE 3) |-> pos * 1000000]

\* A mutation of SampledKey: the range of frames stops before frame_end.
SampledKey_half_open(path, is_bone) ==
    LET key_type == bz2_keyframe_type(path)
    IN  [AnimationKey(key_type) EXCEPT
            !.keys = IF is_bone /\ key_type = 1 THEN <<>>
                     ELSE [k \in 1 .. (frame_end - frame_start) |->
                              <<frame_start + k - 1, Sample(frame_start + k - 1, key_type)>>]]

\* The AnimationKey sampled for one path: a key for each frame of the range;
\* bone_animation_to_bz2anim adds no key for the scale of a bone.
SampledKey(path, is_bone) ==
    LET key_type == bz2_keyframe_type(path)
    IN  [AnimationKey(key_type) EXCEPT
            !.keys = IF is_bone /\ key_type = 1 THEN <<>>
                     ELSE [k \in 1 .. (frame_end + 1 - frame_start) |->
                              <<frame_start + k - 1, Sample(frame_start + k - 1, key_type)>>]]

\* The paths with key points of the object (bone 0) or of its bone k.
KeyedPaths(obj, bone) ==
    LET keyed == SelectSeq(bpy_objects[obj].keyed, LAMBDA c : c.bone = bone)
    IN  [i \in DOMAIN keyed |-> keyed[i].path]

\* animation_to_bz2anim(obj) and bone_animation_to_bz2anim(bone, posebone, armature)
animation_to_bz2anim(obj) ==
    [i \in DOMAIN KeyedPaths(obj, 0) |-> SampledKey(KeyedPaths(obj, 0)[i], FALSE)]
bone_animation_to_bz2anim(obj, bone) ==
    [i \in DOMAIN KeyedPaths(obj, bone) |-> SampledKey(KeyedPaths(obj, bone)[i], TRUE)]

\* The scene clock after sampling sampled paths: frame_set(pos) for each frame
\* of the range leaves it at frame_end.
ClockAfterSampling(clock, sampled) ==
    IF sampled /\ frame_start <= frame_end THEN frame_end ELSE clock

\* The Frames bone_to_bz2frame makes for the bones of armature obj, the first
\* of them at heap index first.
BoneFrames(obj, first) ==
    LET bones == bpy_objects[obj].bones
    IN  [k \in DOMAIN bones |->
            [Frame(bones[k].name) EXCEPT
                !.is_bone = TRUE,
                !.transform = <<Transform(IF opt.export_jedi THEN "xsi style, relative to parent"
                                          ELSE "relative to parent", obj, k)>>,
                !.pose = <<Transform(IF opt.export_jedi THEN "xsi style, relative to parent"
                                     ELSE "relative to parent", obj, k)>>,
                !.frames = [i \in DOMAIN Ascending({j \in DOMAIN bones : bones[j].parent = k})
                              |-> first - 1 + Ascending({j \in DOMAIN bones : bones[j].parent = k})[i]],
                !.animation_keys =
                    IF opt.export_animations /\ bpy_objects[obj].has_action
                    THEN bone_animation_to_bz2anim(obj, k) ELSE <<>>]]

\* dict[key] = value on a dict kept as the list of its items.
DictSet(items, key, value) ==
    IF \E i \in DOMAIN items : items[i].key = key
    THEN [i \in DOMAIN items |->
            IF items[i].key = key THEN [key |-> key, value |-> value] ELSE items[i]]
    ELSE Append(items, [key |-> key, value |-> value])

\* A mutation of BonesEntered: each bone name is bound to the Frame of the
\* armature.
RECURSIVE BonesEntered_armature(_, _, _, _)
BonesEntered_armature(items, bones, k, first) ==
    IF k > Len(bones) THEN items
    ELSE BonesEntered_armature(DictSet(items, bones[k].name, first - 1), bones, k + 1, first)

\* bone_name_to_bz2frame after the bones of armature obj are entered.
RECURSIVE BonesEntered(_, _, _, _)
BonesEntered(items, bones, k, first) ==
    IF k > Len(bones) THEN items
    ELSE BonesEntered(DictSet(items, bones[k].name, first - 1 + k), bones, k + 1, first)

\* get_vertex_weights(obj, group_names): the items of the dict it returns.
get_vertex_weights(obj, group_names) ==
    LET groups == SelectSeq(bpy_objects[obj].vertex_groups,
                            LAMBDA g : \E i \in DOMAIN group_names : group_names[i].key = g.name)
    IN  [i \in DOMAIN groups |->
            [key |-> groups[i].name,
             value |-> [v \in DOMAIN groups[i].weights |->
                          <<groups[i].weights[v][1], groups[i].weights[v][2] * 100>>]]]

\* The envelopes the skin binding appends to the Frame made for obj.
EnvelopesFor(obj) ==
    LET vertex_weights == get_vertex_weights(obj, bone_name_to_bz2frame)
        bound == SelectSeq(bone_name_to_bz2frame,
                           LAMBDA b : \E i \in DOMAIN vertex_weights :
                                         vertex_weights[i].key = b.key)
    IN  [i \in DOMAIN bound |->
            Envelope(bound[i].value,
                     (CHOOSE w \in {vertex_weights[j] : j \in DOMAIN vertex_weights} :
                         w.key = bound[i].key).value)]

SaveInit ==
    /\ \E n \in 0 .. MaxObjs :
         \E par \in Shapes(n), kind \in [1 .. n -> ObjectKinds] :
            bpy_objects = BuildScene(par, kind)
    /\ opt \in Options
    /\ frame_current \in ClockValues
    /\ frame_start = 1
    /\ frame_end = 3
    /\ now = 0
    /\ original_keyframe_position = 0
    /\ pc = "idle"
    /\ objects = <<>> /\ root = 0 /\ stack = <<>> /\ referenced_objects = {}
    /\ enveloped_bz2frames = <<>> /\ bone_name_to_bz2frame = <<>>
    /\ visits = <<>>
    /\ heap = <<>> /\ xsi_frames = <<>> /\ frame_table = EmptyTable
    /\ DUPLICATE_FRAME_NOEXCEPT = FALSE
    /\ call = NoCall
    /\ raised = ""
    /\ IdleFile /\ IdleKey /\ IdleMath /\ IdleMaterial

\* Save.__init__ up to the loop over objects: the clock is remembered, the
\* Document is created and the roots are chosen.
SaveBegin ==
    /\ pc = "idle"
    /\ original_keyframe_position' = frame_current
    /\ objects' = ChosenObjects
    /\ referenced_objects' =
          LET all == ChosenObjects \o obj_hierarchy_to_linear(ChosenObjects)
          IN  {all[i] : i \in DOMAIN all}
    /\ root' = 0
    /\ pc' = "objects"
    /\ call' = Call("Save", 0, <<>>, <<>>)
    /\ UNCHANGED <<bpy_objects, opt, frame_current, stack, enveloped_bz2frames,
                   bone_name_to_bz2frame, visits, raised, docVars, fileVars, hostVars, keyVars,
                   mathVars, materialVars>>

\* object_to_bz2frame(obj, is_root_level) up to its loop over obj.children.
object_to_bz2frame(obj, is_root_level, rest) ==
    LET o == bpy_objects[obj]
        bz2frame == Len(heap) + 1
        is_skinned == opt.export_envelopes /\ get_armature(obj) \in referenced_objects
        transform == ObjectTransform(obj, is_root_level)
        has_mesh == o.type = "MESH" /\ o.data # <<>> /\ o.data[1].vertices # <<>>
        has_faces == ALLOW_MESH_WITH_NO_FACES \/ o.data[1].polygons # <<>>
        converted == has_mesh /\ has_faces /\ opt.export_mesh
        is_armature == ~has_mesh /\ o.type = "ARMATURE"
        pointer == ~has_mesh /\ ~is_armature /\ opt.generate_empty_mesh
        animated == opt.export_animations /\ o.has_action
        bz2_animations == IF animated THEN animation_to_bz2anim(obj) ELSE <<>>
        kept == IF is_root_level /\ ~ALLOW_ROOT_LEVEL_ANIMS THEN <<>> ELSE bz2_animations
        bones == IF is_armature THEN BoneFrames(obj, bz2frame + 1) ELSE <<>>
        bones_sampled == /\ is_armature /\ animated
                         /\ \E k \in DOMAIN o.bones : KeyedPaths(obj, k) # <<>>
        begun == [Frame(o.name) EXCEPT
                     !.transform = <<transform>>,
                     !.pose = IF is_skinned THEN <<transform>> ELSE <<>>]
        made == [begun EXCEPT
                     !.mesh = IF converted
                              THEN <<mesh_to_bz2mesh(o.data[1],
                                        IF USE_FRAME_NAME_AS_MESH_NAME THEN o.name ELSE <<>>)>>
                              ELSE IF pointer
                              THEN <<[generate_pointer_mesh EXCEPT !.name = o.name]>>
                              ELSE <<>>,
                     !.frames = SelectSeq([k \in DOMAIN bones |-> bz2frame + k],
                                          LAMBDA f : o.bones[f - bz2frame].parent = 0),
                     !.animation_keys = IF kept # <<>> THEN bz2_animations ELSE <<>>]
        clock_mesh == IF converted /\ is_skinned THEN frame_start ELSE frame_current
        clock_bones == ClockAfterSampling(clock_mesh, bones_sampled)
    IN  IF converted /\ mesh_to_bz2mesh_raises(o.data[1])
        THEN /\ raised' = "IndexError"
             /\ pc' = "raised"
             /\ heap' = Append(heap, begun)
             /\ visits' = Append(visits, [obj |-> obj, bz2frame |-> bz2frame,
                                       is_root_level |-> is_root_level])
             /\ stack' = <<>>
             /\ UNCHANGED <<bpy_objects, frame_current, enveloped_bz2frames,
                            bone_name_to_bz2frame>>
        ELSE /\ heap' = Append(heap, made) \o bones
             /\ visits' = Append(visits, [obj |-> obj, bz2frame |-> bz2frame,
                                       is_root_level |-> is_root_level])
             /\ bpy_objects' = IF converted
                               THEN [bpy_objects EXCEPT
                                        ![obj].data = <<DataAfterMesh(o.data[1])>>]
                               ELSE bpy_objects
             /\ enveloped_bz2frames' =
                   IF converted /\ is_skinned
                   THEN Append(enveloped_bz2frames, [key |-> bz2frame, value |-> obj])
                   ELSE enveloped_bz2frames
             /\ bone_name_to_bz2frame' =
                   IF is_armature
                   THEN BonesEntered(bone_name_to_bz2frame, o.bones, 1, bz2frame + 1)
                   ELSE bone_name_to_bz2frame
             /\ frame_current' =
                   ClockAfterSampling(clock_bones, bz2_animations # <<>>)
             /\ stack' = Append(rest, [obj |-> obj, bz2frame |-> bz2frame,
                                       is_root_level |-> is_root_level, child |-> 0])
             /\ UNCHANGED <<raised, pc>>

\* The loop of Save.__init__ over objects takes the next root.
VisitRoot ==
    /\ pc = "objects" /\ stack = <<>> /\ root < Len(objects)
    /\ root' = root + 1
    /\ call' = Call("object_to_bz2frame", objects[root + 1], <<>>, <<TRUE>>)
    /\ IF bpy_objects[objects[root + 1]].type \in ALLOWED_SUB_OBJECTS_GLOBAL
       THEN object_to_bz2frame(objects[root + 1], TRUE, stack)
       ELSE UNCHANGED <<bpy_objects, frame_current, stack, enveloped_bz2frames,
                        bone_name_to_bz2frame, visits, heap, raised, pc>>
    /\ UNCHANGED <<opt, original_keyframe_position, objects, referenced_objects,
                   DUPLICATE_FRAME_NOEXCEPT, xsi_frames, frame_table,
                   fileVars, hostVars, keyVars, mathVars, materialVars>>

\* The loop of object_to_bz2frame over obj.children takes the next child.
VisitChild ==
    /\ pc = "objects" /\ stack # <<>>
    /\ LET top == stack[Len(stack)]
           subs == children(top.obj)
           ALLOWED_SUB_OBJECTS == IF opt.export_mesh THEN ALLOWED_SUB_OBJECTS_GLOBAL
                                  ELSE {"EMPTY", "ARMATURE"}
           rest == [stack EXCEPT ![Len(stack)].child = top.child + 1]
       IN  /\ top.child < Len(subs)
           /\ call' = Call("object_to_bz2frame", subs[top.child + 1], <<>>, <<FALSE>>)
           /\ IF bpy_objects[subs[top.child + 1]].type \in ALLOWED_SUB_OBJECTS
              THEN object_to_bz2frame(subs[top.child + 1], FALSE, rest)
              ELSE /\ stack' = rest
                   /\ UNCHANGED <<bpy_objects, frame_current, enveloped_bz2frames,
                                  bone_name_to_bz2frame, visits, heap, raised, pc>>
    /\ UNCHANGED <<opt, original_keyframe_position, objects, root, referenced_objects,
                   DUPLICATE_FRAME_NOEXCEPT, xsi_frames, frame_table,
                   fileVars, hostVars, keyVars, mathVars, materialVars>>

\* object_to_bz2frame returns: the caller appends the Frame to its own list.
Return ==
    /\ pc = "objects" /\ stack # <<>>
    /\ LET top == stack[Len(stack)]
       IN  /\ top.child = Len(children(top.obj))
           /\ stack' = SubSeq(stack, 1, Len(stack) - 1)
           /\ IF Len(stack) = 1
              THEN xsi_frames' = Append(xsi_frames, top.bz2frame) /\ UNCHANGED heap
              ELSE /\ heap' = [heap EXCEPT
                                  ![stack[Len(stack) - 1].bz2frame].frames =
                                      Append(@, top.bz2frame)]
                   /\ UNCHANGED xsi_frames
    /\ UNCHANGED <<bpy_objects, opt, frame_current, original_keyframe_position, pc,
                   objects, root, referenced_objects, enveloped_bz2frames,
                   bone_name_to_bz2frame, visits, DUPLICATE_FRAME_NOEXCEPT, frame_table,
                   apiVars, fileVars, hostVars, keyVars, mathVars, materialVars>>

\* The skin binding of Save.__init__: envelopes for bones.
Envelopes ==
    /\ pc = "objects" /\ stack = <<>> /\ root = Len(objects)
    /\ pc' = "restore"
    /\ heap' = IF opt.export_envelopes
               THEN [f \in DOMAIN heap |->
                       IF \E i \in DOMAIN enveloped_bz2frames : enveloped_bz2frames[i].key = f
                       THEN [heap[f] EXCEPT
                               !.envelopes = @ \o EnvelopesFor(
                                   (CHOOSE e \in {enveloped_bz2frames[i] :
                                                     i \in DOMAIN enveloped_bz2frames} :
                                       e.key = f).value)]
                       ELSE heap[f]]
               ELSE heap
    /\ UNCHANGED <<bpy_objects, opt, frame_current, original_keyframe_position,
                   objects, root, stack, referenced_objects, enveloped_bz2frames,
                   bone_name_to_bz2frame, visits, DUPLICATE_FRAME_NOEXCEPT, xsi_frames,
                   frame_table, apiVars, fileVars, hostVars, keyVars, mathVars, materialVars>>

\* The end of Save.__init__: the clock is set back if it was changed.
Restore ==
    /\ pc = "restore"
    /\ pc' = "done"
    /\ frame_current' = IF frame_current # original_keyframe_position
                        THEN original_keyframe_position ELSE frame_current
    /\ UNCHANGED <<bpy_objects, opt, original_keyframe_position, objects, root, stack,
                   referenced_objects, enveloped_bz2frames, bone_name_to_bz2frame, visits,
                   docVars, apiVars, fileVars, hostVars, keyVars, mathVars, materialVars>>

SaveNext == SaveBegin \/ VisitRoot \/ VisitChild \/ Return \/ Envelopes \/ Restore

SpecSave == SaveInit /\ [][SaveNext]_vars

\* Save has finished: it returned, or it exited by raising.
SaveFinished == pc \in {"done", "raised"}

\* C1 as stated: when Save finishes, by returning or by raising, the scene's
\* current frame is the value it had when the export started.
C1_AsStated == SaveFinished => frame_current = original_keyframe_position

\* What holds of the clock: it is restored when Save returns normally.
ClockRestoredOnReturn == pc = "done" => frame_current = original_keyframe_position

\* Save returned after the clock was moved by sampling or skin binding.
ClockRestoredWitness ==
    /\ pc = "done"
    /\ \E f \in DOMAIN heap : heap[f].animation_keys # <<>> \/ heap[f].envelopes # <<>>
    /\ frame_current = 5

\* The Frames reachable from a root of the Document.
ReachableFrames == {get_all_frames(0)[i] : i \in DOMAIN get_all_frames(0)}

\* C4 as stated: after Save has built the Document, every Frame reachable from
\* a root is registered exactly once in frame_table, under its name.
C4_AsStated ==
    pc = "done"
    => \A f \in ReachableFrames :
          /\ heap[f].name \in DOMAIN frame_table
          /\ frame_table[heap[f].name] = f
          /\ Cardinality({n \in DOMAIN frame_table : frame_table[n] = f}) = 1

\* What holds of frame_table: Save leaves it empty.
TableEmptyAfterSave == DOMAIN frame_table = {}

\* The skin binding has run and has read the weights of a skinned mesh:
\* get_vertex_weights does not move the clock, so frame_current is the clock
\* it read them at.
WeightsRead == pc = "restore" /\ opt.export_envelopes /\ enveloped_bz2frames # <<>>

\* C14 as stated: at the moment the weights of a skinned mesh are read, the
\* scene clock equals the start frame of the sequence.
C14_AsStated == WeightsRead => frame_current = frame_start

\* What holds of the clock and the weights: it is at the start frame when the
\* skinned mesh is converted and nothing is sampled after that.
C14_PinnedUnlessSampledLater ==
    (WeightsRead /\ \A f \in DOMAIN heap : heap[f].animation_keys = <<>>)
    => frame_current = frame_start

\* The AnimationKey holds one key for each frame of the sequence, in
\* ascending order of the frame.
OneKeyPerFrame(anim_key) ==
    /\ Len(anim_key.keys) = frame_end - frame_start + 1
    /\ \A k \in DOMAIN anim_key.keys : anim_key.keys[k][1] = frame_start + k - 1

\* C15 as stated: every AnimationKey that sampling attaches to a frame, of an
\* object or of a bone, for location, rotation or scale, holds exactly one key
\* for each frame from frame_start to frame_end, in ascending order.
C15_AsStated ==
    \A f \in DOMAIN heap : \A a \in DOMAIN heap[f].animation_keys :
        OneKeyPerFrame(heap[f].animation_keys[a])

\* C15: every AnimationKey attached to a frame holds one key for each frame of
\* the sequence in ascending order, except the scale AnimationKey of a bone,
\* which holds no key.
C15_OneKeyPerFrameButBoneScale ==
    \A f \in DOMAIN heap : \A a \in DOMAIN heap[f].animation_keys :
        LET anim_key == heap[f].animation_keys[a]
        IN  IF heap[f].is_bone /\ anim_key.key_type = 1
            THEN anim_key.keys = <<>>
            ELSE OneKeyPerFrame(anim_key)

\* C15 witness: Save returned a Document with the sampled keys of an object
\* and the rotation and scale AnimationKeys of a bone.
C15_Witness ==
    /\ pc = "done"
    /\ \E f, g \in DOMAIN heap :
          /\ ~heap[f].is_bone /\ Len(heap[f].animation_keys) = 2
          /\ Len(heap[f].animation_keys[1].keys) = 3
          /\ heap[g].is_bone
          /\ \E a, b \in DOMAIN heap[g].animation_keys :
                /\ heap[g].animation_keys[a].key_type = 3
                /\ Len(heap[g].animation_keys[a].keys) = 3
                /\ heap[g].animation_keys[b].key_type = 1

\* The host object is one of the chosen roots or a descendant of one.
RECURSIVE ReachableFromRoots(_)
ReachableFromRoots(obj) ==
    \/ \E i \in DOMAIN objects : objects[i] = obj
    \/ bpy_objects[obj].parent # 0 /\ ReachableFromRoots(bpy_objects[obj].parent)

\* The Frames that were made for the host object.
FramesOf(obj) == {visits[i].bz2frame : i \in {j \in DOMAIN visits : visits[j].obj = obj}}

\* C16 as stated: in both export modes, every host object reachable from the
\* chosen roots produces exactly one Frame of the Document.
C16_AsStated ==
    pc = "done"
    => \A obj \in DOMAIN bpy_objects :
          ReachableFromRoots(obj) => Cardinality(FramesOf(obj)) = 1

\* What holds of the visits: when the roots are the parentless objects of the
\* active collection, no host object produces more than one Frame.
AtMostOneFrameInActiveCollection ==
    opt.export_mode = "ACTIVE_COLLECTION"
    => \A obj \in DOMAIN bpy_objects : Cardinality(FramesOf(obj)) <= 1

\* Save returned a Document in which one host object is both a root frame and
\* a descendant frame.
RootAndDescendant ==
    /\ pc = "done"
    /\ \E obj \in DOMAIN bpy_objects : \E f, g \in FramesOf(obj) :
          /\ \E i \in DOMAIN xsi_frames : xsi_frames[i] = f
          /\ \E h \in DOMAIN heap : \E i \in DOMAIN heap[h].frames : heap[h].frames[i] = g

\* The SRT triple, or the basepose triple, of the Frame is set.
SrtSet(f) ==
    heap[f].srt_sca_xyz # <<>> /\ heap[f].srt_rot_xyz # <<>> /\ heap[f].srt_pos_xyz # <<>>
BaseposeSet(f) ==
    /\ heap[f].basepose_sca_xyz # <<>> /\ heap[f].basepose_rot_xyz # <<>>
    /\ heap[f].basepose_pos_xyz # <<>>

\* The SI_Model block of the Frame, written at depth 0, has the line that
\* opens the SI_Transform block of this kind ("SRT" or "BASEPOSE").
HasTransformBlock(f, block) ==
    LET lines == write_si_model(0, f)
    IN  \E p \in DOMAIN lines :
           lines[p] = Tabs(1) \o "SI_Transform " \o block \o "-" \o SafeName(heap[f].name) \o " {"

\* C17 as stated: every Frame built by the per-object visit has its SRT triple
\* set, so that the serializer emits an SI_Transform SRT block in its SI_Model
\* block, and a BASEPOSE block when the frame is skinned.
C17_AsStated ==
    pc = "done"
    => \A i \in DOMAIN visits :
          LET f == visits[i].bz2frame
          IN  /\ SrtSet(f) /\ HasTransformBlock(f, "SRT")
              /\ heap[f].pose # <<>> => BaseposeSet(f) /\ HasTransformBlock(f, "BASEPOSE")

\* What holds of the Frames Save builds: the matrix is kept in transform and
\* pose, and neither triple is ever set.
TriplesNeverSet ==
    \A f \in DOMAIN heap : heap[f].transform # <<>> /\ ~SrtSet(f) /\ ~BaseposeSet(f)

\* Save returned a Document with the Frame of a skinned mesh: its SI_Model
\* block has neither transform block.
NoTransformBlock ==
    /\ pc = "done"
    /\ \E i \in DOMAIN visits :
          LET f == visits[i].bz2frame
          IN  /\ heap[f].pose # <<>> /\ heap[f].mesh # <<>>
              /\ ~HasTransformBlock(f, "SRT") /\ ~HasTransformBlock(f, "BASEPOSE")

\* The meshes of the Document that mesh_to_bz2mesh made: a bone has no mesh,
\* and the mesh of an object that is not a MESH is the pointer mesh.
ConvertedMeshes ==
    {heap[visits[i].bz2frame].mesh[1] :
        i \in {j \in DOMAIN visits : /\ heap[visits[j].bz2frame].mesh # <<>>
                                     /\ bpy_objects[visits[j].obj].type = "MESH"}}

\* C18 as stated: every Mesh produced by mesh conversion with a non-empty
\* face_materials list has one entry of face_materials for each face; the
\* default Material of a mesh without materials is assigned to every face.
C18_AsStated ==
    \A mesh \in ConvertedMeshes :
        mesh.face_materials # <<>> => Len(mesh.face_materials) = Len(mesh.faces)

\* What holds of face_materials: one entry for each face, or the default
\* Material alone.
PerFaceOrDefaultAlone ==
    \A mesh \in ConvertedMeshes :
        \/ Len(mesh.face_materials) = Len(mesh.faces)
        \/ mesh.face_materials = <<Material(<<>>)>>

\* Save returned a Document with a converted mesh of two faces whose
\* face_materials is the default Material alone.
DefaultAloneForTwoFaces ==
    /\ pc = "done"
    /\ \E mesh \in ConvertedMeshes :
          Len(mesh.faces) = 2 /\ mesh.face_materials = <<Material(<<>>)>>

\* The Frames of the Document whose mesh has a quad among its faces and has
\* normals or UVs.
QuadMeshFrames ==
    {f \in DOMAIN heap :
        /\ heap[f].mesh # <<>>
        /\ \E i \in DOMAIN heap[f].mesh[1].faces : Len(heap[f].mesh[1].faces[i]) = 4
        /\ heap[f].mesh[1].normal_vertices # <<>> \/ heap[f].mesh[1].uv_vertices # <<>>}

\* The line of the SI_TriangleList block that carries all the indices of face.
IndexLines(face) ==
    LET indices == Joined([i \in DOMAIN face |-> "i"], face)
    IN  {Tabs(3) \o indices \o ",", Tabs(3) \o indices \o ",\n"}

\* C19 as stated: serializing a mesh whose faces include a quad and which has
\* normals or UVs completes without raising and emits an index line for each
\* face which carries all the indices of the face.
C19_AsStated ==
    pc = "done"
    => \A f \in QuadMeshFrames :
          LET lines == write_si_model(0, f)
          IN  /\ RaisedBy(lines) = ""
              /\ \A i \in DOMAIN heap[f].mesh[1].faces :
                    \E p \in DOMAIN lines : lines[p] \in IndexLines(heap[f].mesh[1].faces[i])

\* What holds of such a mesh: its serialization raises TypeError, and no line
\* with the indices of the quad reaches the file.
QuadRaisesTypeError ==
    pc = "done"
    => \A f \in QuadMeshFrames :
          LET lines == write_si_model(0, f)
          IN  /\ RaisedBy(lines) = "TypeError"
              /\ \A i \in DOMAIN heap[f].mesh[1].faces :
                    Len(heap[f].mesh[1].faces[i]) = 4
                    => \A p \in DOMAIN Written(lines) :
                          lines[p] \notin IndexLines(heap[f].mesh[1].faces[i])

\* Save returned a Document with the pointer mesh of an empty.
PointerMeshBuilt ==
    /\ pc = "done"
    /\ \E f \in QuadMeshFrames :
          heap[f].mesh[1] = [generate_pointer_mesh EXCEPT !.name = heap[f].name]

\* The visits of object_to_bz2frame to a host object named mesh_root or
\* skeleton_root.
RootNameVisits ==
    {i \in DOMAIN visits :
        bpy_objects[visits[i].obj].name \in
            {<<"m", "e", "s", "h", "_", "r", "o", "o", "t">>,
             <<"s", "k", "e", "l", "e", "t", "o", "n", "_", "r", "o", "o", "t">>}}

\* The transform of the Frame is the identity whatever the placement of the
\* host object: it was not derived from a matrix of the object.
IsIdentity(f) == heap[f].transform = <<Transform("Identity", 0, 0)>>

\* C20 as stated: the Frame produced for a host object named mesh_root or
\* skeleton_root has the identity transform regardless of the placement of
\* the object.
C20_AsStated == \A i \in RootNameVisits : IsIdentity(visits[i].bz2frame)

\* C20: the Frame produced for a host object named mesh_root or skeleton_root
\* has the identity transform when export_jedi is on, or when the object is
\* at root level and zero_root_transforms is on; otherwise its transform is
\* the local matrix of the object.
C20_IdentityUnderJedi ==
    \A i \in RootNameVisits :
        LET f == visits[i].bz2frame
        IN  IF opt.export_jedi \/ (visits[i].is_root_level /\ opt.zero_root_transforms)
            THEN IsIdentity(f)
            ELSE heap[f].transform = <<Transform("matrix_local", visits[i].obj, 0)>>

\* C20 witness: with export_jedi on, Save returned a Document with the Frames
\* of a mesh_root and a skeleton_root that the zeroing of the roots does not
\* reach: one is the child of another object, or zero_root_transforms is off.
C20_Witness ==
    /\ pc = "done" /\ opt.export_jedi
    /\ \E i, j \in RootNameVisits :
          /\ bpy_objects[visits[i].obj].name # bpy_objects[visits[j].obj].name
          /\ ~visits[i].is_root_level \/ ~opt.zero_root_transforms
          /\ IsIdentity(visits[i].bz2frame) /\ IsIdentity(visits[j].bz2frame)

\* The data the host object had before the export: that of its kind.
DataBefore(obj) == (CHOOSE kind \in ObjectKinds : kind.name = bpy_objects[obj].name).data

\* The vertex positions of the host mesh of obj are those before the export.
PositionsKept(obj) ==
    bpy_objects[obj].data # <<>>
    => bpy_objects[obj].data[1].vertices = DataBefore(obj)[1].vertices

\* C21 as stated: the traversal only reads the host scene: after mesh
\* conversion, with or without the axis swap, the vertex positions of the host
\* mesh equal their values before the export.
C21_AsStated == \A obj \in DOMAIN bpy_objects : PositionsKept(obj)

\* What holds of the host mesh: without the axis swap its positions are kept,
\* and with the swap every converted mesh that Save visited once holds the
\* swapped positions itself.
SwapMadeInPlace ==
    \A obj \in DOMAIN bpy_objects :
        IF opt # <<>> /\ opt.export_jedi /\ opt.export_mesh
           /\ Cardinality({i \in DOMAIN visits : visits[i].obj = obj}) = 1
           /\ bpy_objects[obj].type = "MESH"
           /\ heap[visits[CHOOSE i \in DOMAIN visits : visits[i].obj = obj].bz2frame].mesh # <<>>
        THEN bpy_objects[obj].data[1].vertices =
                [i \in DOMAIN DataBefore(obj)[1].vertices |->
                    SwapYZ(DataBefore(obj)[1].vertices[i])]
        ELSE opt # <<>> /\ ~opt.export_jedi => PositionsKept(obj)

\* Save returned after converting a mesh with the axis swap, and the host
\* mesh no longer has the positions it had before the export.
HostMeshChanged ==
    /\ pc = "done" /\ opt.export_jedi
    /\ \E obj \in DOMAIN bpy_objects : ~PositionsKept(obj)

\* C23: after skin binding, every Envelope of the Document is attached to a
\* Frame that is not flagged is_bone, and its bone is a Frame flagged is_bone
\* that is reachable from a root of the Document; with export_envelopes off no
\* Frame has an envelope.
C23_EnvelopesBindBones ==
    pc \in {"restore", "done"}
    => \A f \in DOMAIN heap :
          /\ ~opt.export_envelopes => heap[f].envelopes = <<>>
          /\ \A e \in DOMAIN heap[f].envelopes :
                /\ ~heap[f].is_bone
                /\ heap[f].envelopes[e].bone \in DOMAIN heap
                /\ heap[heap[f].envelopes[e].bone].is_bone
                /\ heap[f].envelopes[e].bone \in ReachableFrames

\* C23 witness: the skin binding gave the Frame of a skinned mesh two
\* envelopes, for a bone at the root of the armature and for its child.
C23_Witness ==
    /\ pc = "done"
    /\ \E f \in ReachableFrames :
          /\ Len(heap[f].envelopes) = 2
          /\ \E b \in DOMAIN heap :
                /\ heap[f].envelopes[1].bone = b
                /\ heap[b].frames = <<heap[f].envelopes[2].bone>>

====
